---- MODULE Spec2Model ----
(***************************************************************************)
(* SerializerForBackgroundCompilation: the hint-propagating forward walk   *)
(* over a function's bytecode, with its Environment, its jump-target       *)
(* table, the child serializers run for known callees and the broker's     *)
(* feedback cache.                                                         *)
(*                                                                         *)
(* A step of the walk is one iteration of the loop of TraverseBytecode.    *)
(* A call opcode is finished over several steps: the child serializer's    *)
(* walk runs, on a stack of serializers, between the step that starts the  *)
(* call and the step that ends it.                                         *)
(*                                                                         *)
(* Offsets are the positions 1..n of the bytecodes of an array; an         *)
(* iterator at position n + 1 is done.                                     *)
(***************************************************************************)
EXTENDS Integers, Sequences, FiniteSets, Bags, TLC

VARIABLES
  stack,       \* the running serializers, the top-level one first
  serialized,  \* broker: the (shared, feedback vector) pairs marked serialized
  feedback,    \* broker: the processed feedback cached per (vector, slot)
  results,     \* what the top-level serializer's Run calls returned, in order
  walks,       \* per (shared, feedback vector): how often TraverseBytecode ran
  reached,     \* the (shared, feedback vector) pairs Run was called for
  failed,      \* the assertions (CHECK, DCHECK, SLOW_DCHECK) that failed
  self,        \* an Environment, receiver of the operations of SpecEnv
  other,       \* an Environment, argument of Merge in SpecEnv
  before       \* SpecEnv: the operation applied last, and self before it

vars == <<stack, serialized, feedback, results, walks, reached, failed,
          self, other, before>>

walkVars == <<stack, serialized, feedback, results, walks, reached>>
envVars == <<self, other, before>>

----------------------------------------------------------------------------
(* Bounds. *)

\* Length of the bytecode array of the function whose bytecodes are left open.
OpenLength == 3

\* How often the driver calls Run on the top-level serializer.
MaxRuns == 2

\* How many operations are applied to an Environment, one after the other.
MaxOperations == 2

\* How many arguments an Environment is constructed from, at most.
MaxArguments == 3

----------------------------------------------------------------------------
(* Hints: three sets. *)

EmptyHints == [constants |-> {}, maps |-> {}, function_blueprints |-> {}]

AddConstant(hints, constant) ==
  [hints EXCEPT !.constants = @ \cup {constant}]

AddMap(hints, map) == [hints EXCEPT !.maps = @ \cup {map}]

AddFunctionBlueprint(hints, blueprint) ==
  [hints EXCEPT !.function_blueprints = @ \cup {blueprint}]

\* Assignment in the place of Add.
Assign(hints, more) == more

\* Inserts every constant, map and blueprint of `more` into `hints`.
Add(hints, more) ==
  [constants |-> hints.constants \cup more.constants,
   maps |-> hints.maps \cup more.maps,
   function_blueprints |->
     hints.function_blueprints \cup more.function_blueprints]

IsEmpty(hints) ==
  /\ hints.constants = {}
  /\ hints.maps = {}
  /\ hints.function_blueprints = {}

SetIncludes(lhs, rhs) == \A x \in rhs : x \in lhs

Includes(hints, sub) ==
  /\ SetIncludes(hints.constants, sub.constants)
  /\ SetIncludes(hints.function_blueprints, sub.function_blueprints)
  /\ SetIncludes(hints.maps, sub.maps)

Equals(hints, more) == Includes(hints, more) /\ Includes(more, hints)

Clear(hints) == EmptyHints

----------------------------------------------------------------------------
(* Registers.  A register operand is a parameter, a local, the function    *)
(* closure or the current context.                                         *)

Parameter(i) == <<"a", i>>
Local(i) == <<"r", i>>
FunctionClosure == <<"closure", 0>>
CurrentContext == <<"context", 0>>
InvalidRegister == <<"invalid", 0>>

is_function_closure(reg) == reg = FunctionClosure
is_current_context(reg) == reg = CurrentContext
is_parameter(reg) == reg[1] = "a"
is_valid(reg) == reg # InvalidRegister

----------------------------------------------------------------------------
(* The heap the serializer reads: constants, functions, feedback.          *)

UndefinedValue == "undefined"

SmiFromInt(n) ==
  CASE n = 1 -> "Smi(1)"
    [] n = 2 -> "Smi(2)"
    [] n = 7 -> "Smi(7)"
    [] n = 42 -> "Smi(42)"

\* No feedback vector: a closure without one, a feedback cell without one.
NoVector == "no_vector"

InvalidSlot == 0 - 1

\* The feedback slots of every feedback vector: call ICs in three states.
Slots == {0, 1, 2}

\* JSFunction objects: the SharedFunctionInfo and the feedback vector of each.
JSFunction ==
  [fn_open   |-> [shared |-> "open",   feedback_vector |-> "fv_open"],
   fn_driver |-> [shared |-> "driver", feedback_vector |-> "fv_driver"],
   fn_ident  |-> [shared |-> "ident",  feedback_vector |-> "fv_ident"],
   fn_lazy   |-> [shared |-> "ident",  feedback_vector |-> NoVector],
   fn_api    |-> [shared |-> "api",    feedback_vector |-> "fv_api"],
   fn_base   |-> [shared |-> "builtin", feedback_vector |-> NoVector],
   fn_store  |-> [shared |-> "store",  feedback_vector |-> "fv_store"],
   fn_diamond |-> [shared |-> "diamond", feedback_vector |-> "fv_diamond"],
   fn_dead   |-> [shared |-> "dead",   feedback_vector |-> "fv_dead"],
   fn_handler |-> [shared |-> "handler", feedback_vector |-> "fv_handler"],
   fn_access |-> [shared |-> "access", feedback_vector |-> "fv_access"],
   fn_lazycall |-> [shared |-> "lazycall", feedback_vector |-> "fv_lazycall"],
   fn_returns |-> [shared |-> "returns", feedback_vector |-> "fv_returns"],
   fn_join   |-> [shared |-> "join",   feedback_vector |-> "fv_join"],
   fn_outer  |-> [shared |-> "outer",  feedback_vector |-> "fv_outer"],
   fn_globals |-> [shared |-> "globals", feedback_vector |-> "fv_globals"],
   fn_tail   |-> [shared |-> "tail",   feedback_vector |-> "fv_tail"]]

IsJSFunction(constant) == constant \in DOMAIN JSFunction

has_feedback_vector(function) ==
  JSFunction[function].feedback_vector # NoVector

\* The prototype of a JSFunction's map when it is a constructor ("none"
\* otherwise): what VisitGetSuperConstructor adds to its destination.
ConstructorPrototype(function) ==
  IF function \in {"fn_open", "fn_ident"} THEN "fn_base" ELSE "none"

\* FeedbackVector::GetClosureFeedbackCell(index)->value(): a feedback vector,
\* or no vector yet.
ClosureFeedbackCell(vector, index) ==
  CASE vector = "fv_ping" -> "fv_pong"
    [] vector = "fv_pong" -> "fv_ping"
    [] index = 0 -> "fv_ident"
    [] index = 1 -> "fv_ping"
    [] index = 2 -> "fv_rec"
    [] index = 3 -> "fv_second"
    [] index = 4 -> "fv_thrower"
    [] index = 5 -> "fv_open"
    [] index = 6 -> "fv_api"
    [] index = 8 -> "fv_relay"
    [] OTHER -> NoVector

\* The feedback slots of the property access ICs of every feedback vector.
PropertySlots == 3..9

\* What the FeedbackNexus of a property access slot holds: the state of the
\* IC, the maps ExtractMaps finds, the name GetNameFeedback finds ("none"
\* without one) and GetKeyType.
PropertyNexus ==
  [s \in PropertySlots |->
     CASE s = 3 -> [ic_state |-> "UNINITIALIZED", maps |-> {},
                    name |-> "none", key_type |-> "PROPERTY"]
       [] s = 4 -> [ic_state |-> "MEGAMORPHIC", maps |-> {},
                    name |-> "none", key_type |-> "PROPERTY"]
       [] s = 5 -> [ic_state |-> "POLYMORPHIC",
                    maps |-> {"deprecated_map", "abandoned_map"},
                    name |-> "none", key_type |-> "ELEMENT"]
       [] s = 6 -> [ic_state |-> "POLYMORPHIC",
                    maps |-> {"map", "deprecated_map"},
                    name |-> "none", key_type |-> "ELEMENT"]
       [] s = 7 -> [ic_state |-> "MONOMORPHIC", maps |-> {"map"},
                    name |-> "length", key_type |-> "PROPERTY"]
       [] s = 8 -> [ic_state |-> "MEGAMORPHIC", maps |-> {"map"},
                    name |-> "none", key_type |-> "ELEMENT"]
       [] s = 9 -> [ic_state |-> "MONOMORPHIC", maps |-> {"map"},
                    name |-> "none", key_type |-> "PROPERTY"]]

\* FeedbackNexus(vector, slot).ic_state(), for a valid slot.
ic_state(vector, slot) ==
  IF slot \in PropertySlots THEN PropertyNexus[slot].ic_state
  ELSE CASE slot = 0 -> "UNINITIALIZED"
         [] slot \in {1, 10} -> "MONOMORPHIC"
         [] OTHER -> "MEGAMORPHIC"

\* FeedbackNexus(vector, slot).IsUninitialized(), for a valid slot.
NexusIsUninitialized(vector, slot) == ic_state(vector, slot) = "UNINITIALIZED"

\* Map::TryUpdate(isolate, map): the map, or "none" for a deprecated map
\* without an up-to-date version.
TryUpdate(map) == IF map = "deprecated_map" THEN "none" ELSE map

is_abandoned_prototype_map(map) == map = "abandoned_map"

\* FeedbackNexus(vector, slot).GetFeedback()->GetHeapObject(): the heap
\* object a call IC recorded ("none": a Smi or a cleared weak reference).
NexusHeapObject(vector, slot) ==
  CASE slot = 1 -> "fn_ident"
    [] slot = 2 -> "megamorphic_symbol"
    [] slot = 10 -> "fn_lazy"
    [] OTHER -> "none"

\* The feedback slots of the global access ICs of every feedback vector.
GlobalSlots == 11..13

\* JSHeapBroker::ProcessFeedbackForGlobalAccess(source): the feedback the
\* broker derives for a global access, with a constant hint, without one, or
\* none.
BrokerGlobalAccessFeedback(vector, slot) ==
  CASE slot = 11 -> "GlobalAccessFeedback(constant)"
    [] slot = 12 -> "GlobalAccessFeedback"
    [] OTHER -> "nullptr"

\* GlobalAccessFeedback::GetConstantHint(): the value, if there is one.
GetConstantHint(processed) ==
  IF processed = "GlobalAccessFeedback(constant)" THEN <<"global_constant">>
  ELSE <<>>

\* HeapObjectRef::map().is_callable()
is_callable(object) == IsJSFunction(object)

----------------------------------------------------------------------------
(* Bytecodes.  An element of a bytecode array is the set of the bytecodes  *)
(* that may stand at that offset: one bytecode in an array that is given,  *)
(* every bytecode of the function's operand ranges in the array left open. *)

Ldar(reg) == [op |-> "Ldar", reg |-> reg]
Star(reg) == [op |-> "Star", reg |-> reg]
Mov(src, dst) == [op |-> "Mov", src |-> src, dst |-> dst]
LdaSmi(imm) == [op |-> "LdaSmi", imm |-> imm]
LdaUndefined == [op |-> "LdaUndefined"]
CreateClosure(shared, index) ==
  [op |-> "CreateClosure", shared |-> shared, index |-> index]
GetSuperConstructor(reg) == [op |-> "GetSuperConstructor", reg |-> reg]
Return == [op |-> "Return"]
Throw == [op |-> "Throw"]
Jump(target) == [op |-> "Jump", target |-> target]
JumpIfTrue(target) == [op |-> "JumpIfTrue", target |-> target]
SwitchOnSmiNoFeedback(targets) ==
  [op |-> "SwitchOnSmiNoFeedback", targets |-> targets]
\* Call opcodes with explicit registers: args holds the registers after the
\* callee (CallProperty0/1/2: the receiver first).
CallFixed(op, callee, args, slot) ==
  [op |-> op, callee |-> callee, args |-> args, slot |-> slot]
\* Call and construct opcodes with a register range.
CallRange(op, callee, first, count, slot) ==
  [op |-> op, callee |-> callee, first |-> first, count |-> count,
   slot |-> slot]
\* LdaNamedProperty, StaNamedProperty, StaNamedOwnProperty: the receiver's
\* register, the name of the constant pool and the feedback slot.
NamedPropertyAccess(op, reg, name, slot) ==
  [op |-> op, reg |-> reg, name |-> name, slot |-> slot]
\* LdaKeyedProperty, TestIn: a register and the feedback slot, the other
\* operand being the accumulator.
KeyedPropertyAccess(op, reg, slot) == [op |-> op, reg |-> reg, slot |-> slot]
\* StaKeyedProperty, StaInArrayLiteral: the receiver's register, the key's
\* register and the feedback slot.
KeyedPropertyStore(op, reg, key, slot) ==
  [op |-> op, reg |-> reg, key |-> key, slot |-> slot]
\* LdaGlobal, StaGlobal: the feedback slot (the name is not read).
GlobalAccess(op, slot) == [op |-> op, slot |-> slot]
\* An opcode of one of the macro-defined groups, or of none.
Plain(op) == [op |-> op]
\* The iterator has not read the bytecode it stands at.
NoBytecode == [op |-> "none"]

CallFixedOps ==
  {"CallUndefinedReceiver0", "CallUndefinedReceiver1",
   "CallUndefinedReceiver2", "CallProperty0", "CallProperty1",
   "CallProperty2"}

CallRangeOps ==
  {"CallUndefinedReceiver", "CallAnyReceiver", "CallProperty",
   "CallWithSpread", "Construct", "ConstructWithSpread"}

\* How many registers follow the callee of a call with explicit registers.
ExplicitRegisters(op) ==
  CASE op = "CallUndefinedReceiver0" -> 0
    [] op \in {"CallUndefinedReceiver1", "CallProperty0"} -> 1
    [] op \in {"CallUndefinedReceiver2", "CallProperty1"} -> 2
    [] op = "CallProperty2" -> 3

RECURSIVE Tuples(_, _)
\* The sequences of length n over S.
Tuples(S, n) ==
  IF n = 0 THEN {<<>>}
  ELSE {Append(t, x) : t \in Tuples(S, n - 1), x \in S}

\* The call opcodes whose register range starts with the receiver or ends
\* with the spread.
NonEmptyRange ==
  {"CallAnyReceiver", "CallProperty", "CallWithSpread", "ConstructWithSpread"}

\* The call bytecodes of the given opcodes over the given callee, argument
\* and slot operands, with register ranges inside the locals 0..limit-1.
CallBytecodes(ops, callees, args, slots, limit) ==
  LET fixed ==
        UNION {{CallFixed(op, callee, regs, slot) :
                  callee \in callees,
                  regs \in Tuples(args, ExplicitRegisters(op)),
                  slot \in slots} : op \in ops \cap CallFixedOps}
      ranges ==
        {fc \in (0..(limit - 1)) \X (0..limit) : fc[1] + fc[2] <= limit}
      range ==
        {CallRange(op, callee, Local(fc[1]), fc[2], slot) :
           op \in ops \cap CallRangeOps, callee \in callees, fc \in ranges,
           slot \in slots}
  IN fixed \cup {b \in range : b.op \in NonEmptyRange => b.count >= 1}

----------------------------------------------------------------------------
(* The functions of the heap.                                              *)

\* Per SharedFunctionInfo: the header of its bytecode array (parameter_count,
\* register_count, incoming_new_target_or_generator_register, the handler
\* offsets of its handler table's ranges) and IsInlineable, IsApiFunction,
\* HasBuiltinId.
SharedFunctionInfo ==
  [open    |-> [parameter_count |-> 1, register_count |-> 2,
                new_target |-> InvalidRegister, handlers |-> <<3, 3>>,
                inlineable |-> TRUE, api |-> FALSE, builtin |-> FALSE],
   driver  |-> [parameter_count |-> 1, register_count |-> 2,
                new_target |-> InvalidRegister, handlers |-> <<>>,
                inlineable |-> TRUE, api |-> FALSE, builtin |-> FALSE],
   ident   |-> [parameter_count |-> 1, register_count |-> 0,
                new_target |-> InvalidRegister, handlers |-> <<>>,
                inlineable |-> TRUE, api |-> FALSE, builtin |-> FALSE],
   second  |-> [parameter_count |-> 2, register_count |-> 1,
                new_target |-> Local(0), handlers |-> <<>>,
                inlineable |-> TRUE, api |-> FALSE, builtin |-> FALSE],
   thrower |-> [parameter_count |-> 1, register_count |-> 0,
                new_target |-> InvalidRegister, handlers |-> <<>>,
                inlineable |-> TRUE, api |-> FALSE, builtin |-> FALSE],
   rec     |-> [parameter_count |-> 1, register_count |-> 1,
                new_target |-> InvalidRegister, handlers |-> <<>>,
                inlineable |-> TRUE, api |-> FALSE, builtin |-> FALSE],
   ping    |-> [parameter_count |-> 1, register_count |-> 1,
                new_target |-> InvalidRegister, handlers |-> <<>>,
                inlineable |-> TRUE, api |-> FALSE, builtin |-> FALSE],
   pong    |-> [parameter_count |-> 1, register_count |-> 1,
                new_target |-> InvalidRegister, handlers |-> <<>>,
                inlineable |-> TRUE, api |-> FALSE, builtin |-> FALSE],
   api     |-> [parameter_count |-> 1, register_count |-> 0,
                new_target |-> InvalidRegister, handlers |-> <<>>,
                inlineable |-> FALSE, api |-> TRUE, builtin |-> FALSE],
   builtin |-> [parameter_count |-> 1, register_count |-> 0,
                new_target |-> InvalidRegister, handlers |-> <<>>,
                inlineable |-> FALSE, api |-> FALSE, builtin |-> TRUE],
   store   |-> [parameter_count |-> 1, register_count |-> 1,
                new_target |-> InvalidRegister, handlers |-> <<>>,
                inlineable |-> TRUE, api |-> FALSE, builtin |-> FALSE],
   diamond |-> [parameter_count |-> 1, register_count |-> 0,
                new_target |-> InvalidRegister, handlers |-> <<>>,
                inlineable |-> TRUE, api |-> FALSE, builtin |-> FALSE],
   dead    |-> [parameter_count |-> 1, register_count |-> 0,
                new_target |-> InvalidRegister, handlers |-> <<>>,
                inlineable |-> TRUE, api |-> FALSE, builtin |-> FALSE],
   handler |-> [parameter_count |-> 1, register_count |-> 0,
                new_target |-> InvalidRegister, handlers |-> <<8, 4, 4>>,
                inlineable |-> TRUE, api |-> FALSE, builtin |-> FALSE],
   access  |-> [parameter_count |-> 1, register_count |-> 1,
                new_target |-> InvalidRegister, handlers |-> <<>>,
                inlineable |-> TRUE, api |-> FALSE, builtin |-> FALSE],
   lazycall |-> [parameter_count |-> 1, register_count |-> 1,
                 new_target |-> InvalidRegister, handlers |-> <<>>,
                 inlineable |-> TRUE, api |-> FALSE, builtin |-> FALSE],
   returns |-> [parameter_count |-> 1, register_count |-> 0,
                new_target |-> InvalidRegister, handlers |-> <<>>,
                inlineable |-> TRUE, api |-> FALSE, builtin |-> FALSE],
   join    |-> [parameter_count |-> 1, register_count |-> 1,
                new_target |-> InvalidRegister, handlers |-> <<>>,
                inlineable |-> TRUE, api |-> FALSE, builtin |-> FALSE],
   outer   |-> [parameter_count |-> 1, register_count |-> 1,
                new_target |-> InvalidRegister, handlers |-> <<>>,
                inlineable |-> TRUE, api |-> FALSE, builtin |-> FALSE],
   relay   |-> [parameter_count |-> 1, register_count |-> 1,
                new_target |-> InvalidRegister, handlers |-> <<>>,
                inlineable |-> TRUE, api |-> FALSE, builtin |-> FALSE],
   globals |-> [parameter_count |-> 1, register_count |-> 0,
                new_target |-> InvalidRegister, handlers |-> <<>>,
                inlineable |-> TRUE, api |-> FALSE, builtin |-> FALSE],
   tail    |-> [parameter_count |-> 1, register_count |-> 0,
                new_target |-> InvalidRegister, handlers |-> <<>>,
                inlineable |-> TRUE, api |-> FALSE, builtin |-> FALSE]]

\* The closure literals of a function: the SharedFunctionInfo of the constant
\* pool and the index of the closure feedback cell of each CreateClosure.
ClosureLiterals ==
  {<<"ident", 0>>, <<"ping", 1>>, <<"rec", 2>>, <<"second", 3>>,
   <<"thrower", 4>>, <<"api", 6>>, <<"ident", 7>>}

\* Those of the open function.
OpenLiterals == {<<"ident", 0>>}

\* The register operands of the open function's loads and stores.
OpenRegisters == {Parameter(0), Local(0), FunctionClosure, CurrentContext}

\* Those its stores write.
OpenDestinations == {Local(0), FunctionClosure}

\* Its call opcodes.
OpenCalls == {"CallUndefinedReceiver1", "CallAnyReceiver", "Construct"}

\* The jump tables of its switches.
OpenTables == {{t} : t \in 1..OpenLength} \cup {{1, OpenLength}}

\* The bytecodes at an offset of the open function.
OpenBytecodes ==
  {LdaSmi(1), Return, Throw, Plain("ResumeGenerator"), Plain("Debugger"),
   Plain("Add"), Plain("StackCheck"), Plain("Unsupported")}
  \cup {Ldar(r) : r \in OpenRegisters}
  \cup {Star(r) : r \in OpenDestinations}
  \cup {GetSuperConstructor(r) : r \in OpenDestinations}
  \cup {Mov(a, b) : a \in OpenRegisters, b \in OpenDestinations}
  \cup {CreateClosure(l[1], l[2]) : l \in OpenLiterals}
  \cup {Jump(t) : t \in 1..OpenLength}
  \cup {JumpIfTrue(t) : t \in 1..OpenLength}
  \cup {SwitchOnSmiNoFeedback(ts) : ts \in OpenTables}
  \cup CallBytecodes(OpenCalls, {Local(0), FunctionClosure},
                     {Local(0), Parameter(0)}, Slots \cup {InvalidSlot}, 1)

NamedAccessOps ==
  {"LdaNamedProperty", "StaNamedProperty", "StaNamedOwnProperty"}

KeyedAccessOps == {"LdaKeyedProperty", "TestIn"}

KeyedStoreOps == {"StaKeyedProperty", "StaInArrayLiteral"}

\* The property access bytecodes of the given opcodes over the given slots,
\* with the receiver in the first parameter and the key in the first local.
AccessBytecodes(ops, slots) ==
  {NamedPropertyAccess(op, Parameter(0), "length", slot) :
     op \in ops \cap NamedAccessOps, slot \in slots}
  \cup {KeyedPropertyAccess(op, Parameter(0), slot) :
          op \in ops \cap KeyedAccessOps, slot \in slots}
  \cup {KeyedPropertyStore(op, Parameter(0), Local(0), slot) :
          op \in ops \cap KeyedStoreOps, slot \in slots}

\* The global access bytecodes over the given slots.
GlobalBytecodes(slots) ==
  {GlobalAccess(op, slot) : op \in {"LdaGlobal", "StaGlobal"}, slot \in slots}

\* The bytecode arrays of the heap, per SharedFunctionInfo.
BytecodeArrays ==
  [open    |-> [i \in 1..OpenLength |-> OpenBytecodes],
   driver  |-> <<{CreateClosure(l[1], l[2]) : l \in ClosureLiterals},
                 {Star(Local(0))},
                 {LdaSmi(1)},
                 {Star(Local(1))},
                 CallBytecodes(CallFixedOps \cup CallRangeOps, {Local(0)},
                               {Local(1), Parameter(0)},
                               {0, 1, InvalidSlot}, 2)>>,
   ident   |-> <<{Ldar(Parameter(0))}, {Return}>>,
   second  |-> <<{Ldar(Parameter(1))}, {Return}>>,
   thrower |-> <<{LdaUndefined}, {Throw}>>,
   rec     |-> <<{Ldar(FunctionClosure)}, {Star(Local(0))},
                 {CallFixed("CallUndefinedReceiver0", Local(0), <<>>, 2)},
                 {Return}>>,
   ping    |-> <<{CreateClosure("pong", 0)}, {Star(Local(0))},
                 {CallFixed("CallUndefinedReceiver0", Local(0), <<>>, 2)},
                 {Return}>>,
   pong    |-> <<{CreateClosure("ping", 0)}, {Star(Local(0))},
                 {CallFixed("CallProperty0", Local(0), <<Parameter(0)>>, 2)},
                 {Return}>>,
   api     |-> <<>>,
   builtin |-> <<>>,
   store   |-> <<{LdaSmi(7)}, {Star(Local(0))}, {Ldar(Local(0))}, {Return}>>,
   diamond |-> <<{JumpIfTrue(4)}, {LdaSmi(1)}, {Jump(5)}, {LdaSmi(2)},
                 {Return}>>,
   dead    |-> <<{LdaUndefined}, {Throw}, {LdaSmi(42)}, {Return}>>,
   handler |-> <<{LdaUndefined}, {Throw}, {LdaSmi(42)}, {LdaSmi(1)},
                 {Return}, {Throw}, {LdaSmi(42)}, {LdaSmi(2)}, {Return}>>,
   access  |-> <<{LdaSmi(1)}, {Star(Local(0))},
                 AccessBytecodes(
                   NamedAccessOps \cup KeyedAccessOps \cup KeyedStoreOps,
                   PropertySlots \cup {InvalidSlot}),
                 AccessBytecodes({"LdaNamedProperty", "LdaKeyedProperty"},
                                 PropertySlots \cup {InvalidSlot}),
                 {Return}>>,
   lazycall |-> <<{LdaSmi(1)}, {Star(Local(0))},
                  {CallFixed("CallUndefinedReceiver0", Local(0), <<>>, 10)},
                  {Return}>>,
   returns |-> <<{LdaSmi(1)}, {Return}, {LdaSmi(2)}, {Return}>>,
   join    |-> <<{LdaSmi(1)}, {Star(Local(0))}, {LdaSmi(2)}, {JumpIfTrue(7)},
                 {Throw}, {LdaSmi(42)}, {Return}>>,
   outer   |-> <<{CreateClosure("relay", 8)}, {Star(Local(0))},
                 {CallFixed("CallUndefinedReceiver0", Local(0), <<>>, 2)},
                 {Return}>>,
   relay   |-> <<{CreateClosure("thrower", 4)}, {Star(Local(0))},
                 {CallFixed("CallUndefinedReceiver0", Local(0), <<>>, 2)},
                 {NamedPropertyAccess("LdaNamedProperty", Parameter(0),
                                      "length", 3)},
                 {Return}>>,
   globals |-> <<{LdaSmi(1)},
                 GlobalBytecodes(GlobalSlots \cup {InvalidSlot}),
                 GlobalBytecodes(GlobalSlots \cup {InvalidSlot}),
                 {Return}>>,
   tail    |-> <<{LdaSmi(1)}, {Return}, {JumpIfTrue(8)}, {LdaSmi(2)},
                 {Return}, {JumpIfTrue(8)}, {Throw}, {Return}>>]

\* function.shared->GetBytecodeArray()
BytecodeArray(shared) == BytecodeArrays[shared]

\* The group of the macro lists of the serializer's header an opcode without
\* a Visit function of its own belongs to; "default" for an opcode outside
\* SUPPORTED_BYTECODE_LIST.
OpcodeGroup(op) ==
  CASE op \in {"Throw"} -> "KILL_ENVIRONMENT_LIST"
    [] op \in {"ResumeGenerator", "Debugger"} -> "CLEAR_ENVIRONMENT_LIST"
    [] op \in {"Add"} -> "CLEAR_ACCUMULATOR_LIST"
    [] op \in {"StackCheck"} -> "IGNORED_BYTECODE_LIST"
    [] op \in {"Jump"} -> "UNCONDITIONAL_JUMPS_LIST"
    [] op \in {"JumpIfTrue"} -> "CONDITIONAL_JUMPS_LIST"
    [] op \in {"Unsupported"} -> "default"
    [] OTHER -> "Visit"

----------------------------------------------------------------------------
(* Environment.  ephemeral_hints is the vector                             *)
(* [ parameters | registers | accumulator | context ], empty when dead.    *)

\* A CompilationSubject: a blueprint and, when known, the closure ("none").
SubjectOfClosure(closure) ==
  [blueprint |-> <<JSFunction[closure].shared,
                   JSFunction[closure].feedback_vector>>,
   closure |-> closure]

SubjectOfBlueprint(blueprint) == [blueprint |-> blueprint, closure |-> "none"]

parameter_count(env) == SharedFunctionInfo[env.function[1]].parameter_count
register_count(env) == SharedFunctionInfo[env.function[1]].register_count

accumulator_index(env) == parameter_count(env) + register_count(env)
current_context_index(env) == accumulator_index(env) + 1
ephemeral_hints_size(env) == current_context_index(env) + 1

IsDead(env) == env.ephemeral_hints = <<>>

\* Kill that leaves the hints where they are.
KillKeeps(env) == env

Kill(env) == [env EXCEPT !.ephemeral_hints = <<>>]

KillFailures(env) == IF IsDead(env) THEN {"DCHECK(!IsDead()) in Kill"} ELSE {}

\* Revive that leaves the vector empty.
ReviveEmpty(env) == env

\* ephemeral_hints_.resize(ephemeral_hints_size(), Hints(zone()))
Revive(env) ==
  [env EXCEPT !.ephemeral_hints =
     [i \in 1..ephemeral_hints_size(env) |->
        IF i <= Len(@) THEN @[i] ELSE EmptyHints]]

ReviveFailures(env) ==
  IF IsDead(env) THEN {} ELSE {"DCHECK(IsDead()) in Revive"}

RegisterToLocalIndex(env, reg) ==
  IF is_current_context(reg) THEN current_context_index(env)
  ELSE IF is_parameter(reg) THEN reg[2]
  ELSE parameter_count(env) + reg[2]

\* What accumulator_hints() refers to; its CHECK_LT is AccessFailures.
accumulator_hints(env) ==
  IF accumulator_index(env) < Len(env.ephemeral_hints)
  THEN env.ephemeral_hints[accumulator_index(env) + 1]
  ELSE EmptyHints

\* What register_hints(reg) refers to.
register_hints(env, reg) ==
  IF is_function_closure(reg) THEN env.closure_hints
  ELSE IF RegisterToLocalIndex(env, reg) < Len(env.ephemeral_hints)
  THEN env.ephemeral_hints[RegisterToLocalIndex(env, reg) + 1]
  ELSE EmptyHints

\* The CHECK_LT of accumulator_hints and register_hints.
AccessFailures(env) ==
  IF IsDead(env)
  THEN {"CHECK_LT(index, ephemeral_hints_.size())"}
  ELSE {}

\* A write through the reference accumulator_hints() returns.
WithAccumulatorHints(env, hints) ==
  IF accumulator_index(env) < Len(env.ephemeral_hints)
  THEN [env EXCEPT !.ephemeral_hints[accumulator_index(env) + 1] = hints]
  ELSE env

\* A write through the reference register_hints(reg) returns.
WithRegisterHints(env, reg, hints) ==
  IF is_function_closure(reg) THEN [env EXCEPT !.closure_hints = hints]
  ELSE IF RegisterToLocalIndex(env, reg) < Len(env.ephemeral_hints)
  THEN [env EXCEPT
          !.ephemeral_hints[RegisterToLocalIndex(env, reg) + 1] = hints]
  ELSE env

\* ClearEphemeralHints that empties the vector, as Kill does.
ClearEphemeralKills(env) == [env EXCEPT !.ephemeral_hints = <<>>]

\* Environment::ClearEphemeralHints
ClearEphemeralHints(env) ==
  [env EXCEPT !.ephemeral_hints = [i \in 1..Len(@) |-> Clear(@[i])]]

\* Environment(Zone*, CompilationSubject)
NewEnvironment(function) ==
  LET shared == SharedFunctionInfo[function.blueprint[1]]
  IN [function |-> function.blueprint,
      closure_hints |->
        IF function.closure # "none"
        THEN AddConstant(EmptyHints, function.closure)
        ELSE AddFunctionBlueprint(EmptyHints, function.blueprint),
      return_value_hints |-> EmptyHints,
      ephemeral_hints |->
        [i \in 1..(shared.parameter_count + shared.register_count + 2) |->
           EmptyHints]]

\* The copy constructor of Environment, which the compiler defines: a copy
\* of every member, the sets of the hints among them.
Copy(env) ==
  [function |-> env.function,
   closure_hints |-> Add(EmptyHints, env.closure_hints),
   return_value_hints |-> Add(EmptyHints, env.return_value_hints),
   ephemeral_hints |->
     [i \in 1..Len(env.ephemeral_hints) |->
        Add(EmptyHints, env.ephemeral_hints[i])]]

Min(a, b) == IF a < b THEN a ELSE b

\* The constructor for an inlined function that seeds nothing.
UnseededEnvironment(function, new_target, arguments) ==
  NewEnvironment(function)

\* Environment(Zone*, Isolate*, CompilationSubject, new_target, arguments);
\* new_target is <<>> or <<hints>>.
InlinedEnvironment(function, new_target, arguments) ==
  LET env == NewEnvironment(function)
      param_count == parameter_count(env)
      copied ==
        [i \in 1..Len(env.ephemeral_hints) |->
           IF i <= Min(Len(arguments), param_count)
           THEN arguments[i] ELSE env.ephemeral_hints[i]]
      padded ==
        [i \in 1..Len(env.ephemeral_hints) |->
           IF Len(arguments) < i /\ i <= param_count
           THEN AddConstant(EmptyHints, UndefinedValue) ELSE copied[i]]
      seeded == [env EXCEPT !.ephemeral_hints = padded]
      new_target_reg == SharedFunctionInfo[function.blueprint[1]].new_target
  IN IF is_valid(new_target_reg) /\ new_target # <<>>
     THEN WithRegisterHints(
            seeded, new_target_reg,
            Add(register_hints(seeded, new_target_reg), new_target[1]))
     ELSE seeded

\* DCHECK(register_hints(new_target_reg).IsEmpty()), on the environment
\* the parameters were seeded in.
InlinedFailures(function, arguments) ==
  LET new_target_reg == SharedFunctionInfo[function.blueprint[1]].new_target
  IN IF /\ is_valid(new_target_reg)
        /\ ~IsEmpty(register_hints(
                      InlinedEnvironment(function, <<>>, arguments),
                      new_target_reg))
     THEN {"DCHECK(register_hints(new_target_reg).IsEmpty())"}
     ELSE {}

\* Merge that adopts the other environment's hints in every case.
MergeAdopts(this, that) ==
  [this EXCEPT !.ephemeral_hints = that.ephemeral_hints]

\* Merge that adds the other environment's return value hints in every
\* case.
MergeUnions(this, that) ==
  [this EXCEPT
     !.ephemeral_hints =
        IF IsDead(this) THEN that.ephemeral_hints
        ELSE [i \in 1..Len(@) |->
                IF i <= Len(that.ephemeral_hints)
                THEN Add(@[i], that.ephemeral_hints[i]) ELSE @[i]],
     !.return_value_hints = Add(@, that.return_value_hints)]

\* Merge {other} into {this} environment (leaving {other} unmodified).
Merge(this, that) ==
  IF IsDead(this)
  THEN [this EXCEPT !.ephemeral_hints = that.ephemeral_hints]
  ELSE [this EXCEPT
          !.ephemeral_hints =
             [i \in 1..Len(@) |->
                IF i <= Len(that.ephemeral_hints)
                THEN Add(@[i], that.ephemeral_hints[i]) ELSE @[i]],
          !.return_value_hints = Add(@, that.return_value_hints)]

\* The assertions of Merge that fail for this receiver and argument.
MergeFailures(this, that) ==
  (IF parameter_count(this) # parameter_count(that)
   THEN {"CHECK_EQ(parameter_count(), other->parameter_count())"} ELSE {})
  \cup
  (IF register_count(this) # register_count(that)
   THEN {"CHECK_EQ(register_count(), other->register_count())"} ELSE {})
  \cup
  (IF ~Equals(this.closure_hints, that.closure_hints)
   THEN {"SLOW_DCHECK(closure_hints_.Equals(other->closure_hints_))"}
   ELSE {})
  \cup
  (IF IsDead(this)
   THEN (IF ~Includes(this.return_value_hints, that.return_value_hints)
         THEN {"SLOW_DCHECK(return_value_hints_.Includes(...))"} ELSE {})
        \cup
        (IF IsDead(that) THEN {"CHECK(!IsDead()) in Merge"} ELSE {})
   ELSE IF Len(this.ephemeral_hints) # Len(that.ephemeral_hints)
        THEN {"CHECK_EQ(ephemeral_hints_.size(), other->...size())"}
        ELSE {})

\* The failed assertions that end the process: CHECKs.  The others are
\* compiled into debug builds only.
Fatal ==
  {"CHECK_EQ(parameter_count(), other->parameter_count())",
   "CHECK_EQ(register_count(), other->register_count())",
   "CHECK(!IsDead()) in Merge",
   "CHECK_EQ(ephemeral_hints_.size(), other->...size())",
   "CHECK_LT(index, ephemeral_hints_.size())"}

----------------------------------------------------------------------------
(* Transfer functions on the environment.                                  *)

VisitLdaUndefined(env, iterator) ==
  WithAccumulatorHints(env, AddConstant(Clear(accumulator_hints(env)),
                                        UndefinedValue))

VisitLdaSmi(env, iterator) ==
  WithAccumulatorHints(env, AddConstant(Clear(accumulator_hints(env)),
                                        SmiFromInt(iterator.imm)))

VisitLdar(env, iterator) ==
  LET cleared == WithAccumulatorHints(env, Clear(accumulator_hints(env)))
  IN WithAccumulatorHints(
       cleared,
       Add(accumulator_hints(cleared), register_hints(cleared, iterator.reg)))

\* Star that stores nothing.
StarClears(env, iterator) ==
  WithRegisterHints(env, iterator.reg, EmptyHints)

VisitStar(env, iterator) ==
  LET reg == iterator.reg
      cleared == WithRegisterHints(env, reg, Clear(register_hints(env, reg)))
  IN WithRegisterHints(
       cleared, reg,
       Add(register_hints(cleared, reg), accumulator_hints(cleared)))

VisitMov(env, iterator) ==
  LET src == iterator.src
      dst == iterator.dst
      cleared == WithRegisterHints(env, dst, Clear(register_hints(env, dst)))
  IN WithRegisterHints(
       cleared, dst,
       Add(register_hints(cleared, dst), register_hints(cleared, src)))

VisitCreateClosure(env, iterator) ==
  LET cell_value == ClosureFeedbackCell(env.function[2], iterator.index)
      cleared == Clear(accumulator_hints(env))
  IN WithAccumulatorHints(
       env,
       IF cell_value # NoVector
       THEN AddFunctionBlueprint(cleared, <<iterator.shared, cell_value>>)
       ELSE cleared)

VisitGetSuperConstructor(env, iterator) ==
  LET dst == iterator.reg
      cleared == WithRegisterHints(env, dst, Clear(register_hints(env, dst)))
      protos ==
        {ConstructorPrototype(constant) :
           constant \in {c \in accumulator_hints(cleared).constants :
                           IsJSFunction(c)}} \ {"none"}
  IN WithRegisterHints(
       cleared, dst,
       [register_hints(cleared, dst) EXCEPT !.constants = @ \cup protos])

\* VisitReturn that kills the environment, as a Throw does.
ReturnKills(env, iterator) ==
  [env EXCEPT !.return_value_hints = Add(@, accumulator_hints(env)),
              !.ephemeral_hints = <<>>]

\* VisitReturn that assigns the accumulator's hints to the return value.
ReturnAssigns(env, iterator) ==
  ClearEphemeralHints(
    [env EXCEPT !.return_value_hints = accumulator_hints(env)])

VisitReturn(env, iterator) ==
  ClearEphemeralHints(
    [env EXCEPT !.return_value_hints = Add(@, accumulator_hints(env))])

\* DEFINE_CLEAR_ENVIRONMENT, and the default of the dispatch
VisitClearEnvironment(env, iterator) == ClearEphemeralHints(env)

\* DEFINE_CLEAR_ACCUMULATOR
VisitClearAccumulator(env, iterator) ==
  WithAccumulatorHints(env, Clear(accumulator_hints(env)))

\* DEFINE_IGNORE
VisitIgnored(env, iterator) == env

\* A kill opcode that clears the hints only.
KillClears(env, iterator) == ClearEphemeralHints(env)

\* A kill opcode that forgets the return value hints.
KillForgetsReturnValue(env, iterator) ==
  [env EXCEPT !.ephemeral_hints = <<>>, !.return_value_hints = EmptyHints]

\* DEFINE_KILL
VisitKill(env, iterator) == Kill(env)

\* Appends the hints for the given register range to dst.
ExportRegisterHints(env, first, count, dst) ==
  LET resized == dst \o [i \in 1..count |-> EmptyHints]
      reg_base == first[2]
  IN resized \o
     [i \in 1..count |-> register_hints(env, Local(reg_base + (i - 1)))]

----------------------------------------------------------------------------
(* The broker.                                                             *)

HasFeedback(cache, source) == source \in DOMAIN cache

SetFeedback(cache, source, processed) ==
  [s \in DOMAIN cache \cup {source} |->
     IF s = source THEN processed ELSE cache[s]]

IsSerializedForCompilation(marks, shared, feedback_vector) ==
  <<shared, feedback_vector>> \in marks

SetSerializedForCompilation(marks, shared, feedback_vector) ==
  marks \cup {<<shared, feedback_vector>>}

----------------------------------------------------------------------------
(* A serializer: its environment, its jump-target table, its flags, and    *)
(* where its walk stands: the iterator's offset (0 while TraverseBytecode  *)
(* does not run) and current bytecode (none until the step at an offset    *)
(* has read it), the handler matcher, and the call being processed (<<>>   *)
(* when none is).                                                          *)

kBailoutOnUninitialized == "kBailoutOnUninitialized"
kOsr == "kOsr"
kCollectSourcePositions == "kCollectSourcePositions"
Flags == {kBailoutOnUninitialized, kOsr, kCollectSourcePositions}

NoEntries == [o \in {} |-> 0]

Serializer(env, flags) ==
  [environment |-> env,
   jump_target_environments |-> NoEntries,
   flags |-> flags,
   offset |-> 0,
   handlers |-> <<>>,
   handlers_iterator |-> 1,
   current_bytecode |-> NoBytecode,
   call |-> <<>>]

\* SerializerForBackgroundCompilation(broker, dependencies, zone, closure,
\* flags)
TopLevelSerializer(closure, flags) ==
  Serializer(NewEnvironment(SubjectOfClosure(closure)), flags)

\* SerializerForBackgroundCompilation(broker, dependencies, zone, function,
\* new_target, arguments, flags)
ChildSerializer(function, new_target, arguments, flags) ==
  Serializer(InlinedEnvironment(function, new_target, arguments), flags)

ChildSerializerFailures(flags) ==
  IF kOsr \in flags THEN {"DCHECK(!(flags_ & kOsr))"} ELSE {}

Length(serializer) ==
  Len(BytecodeArray(serializer.environment.function[1]))

\* iterator.done()
Done(serializer) == serializer.offset > Length(serializer)

RECURSIVE SortedSeq(_)
\* The elements of a std::set<int> in its order.
SortedSeq(S) ==
  IF S = {} THEN <<>>
  ELSE LET least == CHOOSE x \in S : \A y \in S : x <= y
       IN <<least>> \o SortedSeq(S \ {least})

\* ExceptionHandlerMatcher(iterator), and the iterator at its start.
StartTraversal(serializer) ==
  LET table ==
        SharedFunctionInfo[serializer.environment.function[1]].handlers
  IN [serializer EXCEPT
        !.offset = 1,
        !.handlers = SortedSeq({table[i] : i \in 1..Len(table)}),
        !.handlers_iterator = 1]

RECURSIVE AdvanceHandlers(_, _, _)
\* The while loop of CurrentBytecodeIsExceptionHandlerStart.
AdvanceHandlers(handlers, it, current_offset) ==
  IF it <= Len(handlers) /\ handlers[it] < current_offset
  THEN AdvanceHandlers(handlers, it + 1, current_offset)
  ELSE it

\* A matcher that finds no handler.
NeverExceptionHandlerStart(serializer) ==
  [result |-> FALSE, handlers_iterator |-> serializer.handlers_iterator]

CurrentBytecodeIsExceptionHandlerStart(serializer) ==
  LET it == AdvanceHandlers(serializer.handlers,
                            serializer.handlers_iterator, serializer.offset)
  IN [result |-> it <= Len(serializer.handlers)
                   /\ serializer.handlers[it] = serializer.offset,
      handlers_iterator |-> it]

\* An outcome of a piece of a step: the serializer, the broker's feedback
\* cache and the assertions that failed on the way.
Outcome(serializer, cache, failures) ==
  [serializer |-> serializer, feedback |-> cache, failed |-> failures]

OnEnvironment(serializer, cache, env) ==
  Outcome([serializer EXCEPT !.environment = env], cache, {})

\* A contribution that puts a killed copy of the environment into a new
\* entry.
ContributeStoresDead(serializer, target_offset) ==
  LET table == serializer.jump_target_environments
      env == serializer.environment
  IN [serializer EXCEPT
        !.jump_target_environments =
           [o \in DOMAIN table \cup {target_offset} |->
              IF o # target_offset THEN table[o]
              ELSE IF target_offset \in DOMAIN table
                   THEN Merge(table[target_offset], env)
                   ELSE [env EXCEPT !.ephemeral_hints = <<>>]]]

\* A contribution that leaves the table as it is.
ContributeNothing(serializer, target_offset) == serializer

ContributeToJumpTargetEnvironment(serializer, target_offset) ==
  LET table == serializer.jump_target_environments
      env == serializer.environment
  IN [serializer EXCEPT
        !.jump_target_environments =
           [o \in DOMAIN table \cup {target_offset} |->
              IF o # target_offset THEN table[o]
              ELSE IF target_offset \in DOMAIN table
                   THEN Merge(table[target_offset], env)
                   ELSE Copy(env)]]

ContributeFailures(serializer, target_offset) ==
  IF target_offset \in DOMAIN serializer.jump_target_environments
  THEN MergeFailures(serializer.jump_target_environments[target_offset],
                     serializer.environment)
  ELSE {}

\* IncorporateJumpTargetEnvironment that erases the entry and merges
\* nothing.
IncorporateErases(serializer, target_offset) ==
  LET table == serializer.jump_target_environments
  IN [serializer EXCEPT
        !.jump_target_environments =
           [o \in DOMAIN table \ {target_offset} |-> table[o]]]

IncorporateJumpTargetEnvironment(serializer, target_offset) ==
  LET table == serializer.jump_target_environments
  IN IF target_offset \in DOMAIN table
     THEN [serializer EXCEPT
             !.environment = Merge(@, table[target_offset]),
             !.jump_target_environments =
                [o \in DOMAIN table \ {target_offset} |-> table[o]]]
     ELSE serializer

IncorporateFailures(serializer, target_offset) ==
  IF target_offset \in DOMAIN serializer.jump_target_environments
  THEN MergeFailures(serializer.environment,
                     serializer.jump_target_environments[target_offset])
  ELSE {}

\* ProcessJump that contributes for a jump in any direction.
ProcessJumpAlways(serializer, iterator) ==
  ContributeToJumpTargetEnvironment(serializer, iterator.target)

ProcessJump(serializer, iterator) ==
  IF serializer.offset < iterator.target
  THEN ContributeToJumpTargetEnvironment(serializer, iterator.target)
  ELSE serializer

ProcessJumpFailures(serializer, iterator) ==
  IF serializer.offset < iterator.target
  THEN ContributeFailures(serializer, iterator.target)
  ELSE {}

\* A conditional jump that goes on with cleared hints.
ConditionalJumpClears(serializer, iterator) ==
  [ProcessJump(serializer, iterator) EXCEPT
     !.environment = ClearEphemeralHints(@)]

\* DEFINE_CONDITIONAL_JUMP
VisitConditionalJump(serializer, iterator) ==
  ProcessJump(serializer, iterator)

\* DEFINE_UNCONDITIONAL_JUMP
VisitUnconditionalJump(serializer, iterator) ==
  [ProcessJump(serializer, iterator) EXCEPT
     !.environment = ClearEphemeralHints(@)]

RECURSIVE ContributeAll(_, _)
ContributeAll(serializer, targets) ==
  IF targets = {} THEN serializer
  ELSE LET target == CHOOSE t \in targets : \A u \in targets : t <= u
       IN ContributeAll(ContributeToJumpTargetEnvironment(serializer, target),
                        targets \ {target})

VisitSwitchOnSmiNoFeedback(serializer, iterator) ==
  ContributeAll(serializer, iterator.targets)

SwitchFailures(serializer, iterator) ==
  UNION {ContributeFailures(serializer, t) : t \in iterator.targets}

----------------------------------------------------------------------------
(* Feedback and calls.                                                     *)

Source(serializer, slot) == <<serializer.environment.function[2], slot>>

\* BailoutOnUninitialized that never bails out.
BailoutNever(serializer, cache, slot) ==
  [result |-> FALSE, outcome |-> Outcome(serializer, cache, {})]

\* BailoutOnUninitialized without the exclusion of OSR.
BailoutDespiteOsr(serializer, cache, slot) ==
  IF /\ kBailoutOnUninitialized \in serializer.flags
     /\ slot # InvalidSlot
     /\ NexusIsUninitialized(serializer.environment.function[2], slot)
  THEN [result |-> TRUE,
        outcome |->
          Outcome([serializer EXCEPT !.environment = Kill(@)],
                  SetFeedback(cache,
                              <<serializer.environment.function[2], slot>>,
                              "InsufficientFeedback"),
                  {})]
  ELSE [result |-> FALSE, outcome |-> Outcome(serializer, cache, {})]

BailoutOnUninitialized(serializer, cache, slot) ==
  LET env == serializer.environment
      source == Source(serializer, slot)
      alive == IF IsDead(env)
               THEN {"DCHECK(!IsDead()) in BailoutOnUninitialized"} ELSE {}
  IN IF kBailoutOnUninitialized \notin serializer.flags
     THEN [result |-> FALSE, outcome |-> Outcome(serializer, cache, alive)]
     ELSE IF kOsr \in serializer.flags
     THEN [result |-> FALSE, outcome |-> Outcome(serializer, cache, alive)]
     ELSE IF slot # InvalidSlot /\ NexusIsUninitialized(source[1], slot)
     THEN [result |-> TRUE,
           outcome |->
             Outcome([serializer EXCEPT !.environment = Kill(env)],
                     IF HasFeedback(cache, source) THEN cache
                     ELSE SetFeedback(cache, source, "InsufficientFeedback"),
                     alive \cup KillFailures(env) \cup
                     (IF HasFeedback(cache, source)
                         /\ cache[source] # "InsufficientFeedback"
                      THEN {"DCHECK_EQ(kind(), kInsufficient)"} ELSE {}))]
     ELSE [result |-> FALSE, outcome |-> Outcome(serializer, cache, alive)]

\* The heap object of the feedback of a call IC, "none" without one.
GetHeapObjectFeedback(feedback_vector, slot) ==
  IF slot = InvalidSlot THEN "none"
  ELSE IF NexusIsUninitialized(feedback_vector, slot) THEN "none"
  ELSE NexusHeapObject(feedback_vector, slot)

\* ProcessCallOrConstruct that leaves the accumulator as it is.
CallKeepsAccumulator(serializer, cache, callee, new_target, arguments, slot, with_spread) ==
  LET bailout == BailoutOnUninitialized(serializer, cache, slot)
      object == GetHeapObjectFeedback(serializer.environment.function[2],
                                      slot)
      enrich == object # "none" /\ is_callable(object)
      callee_hints == IF enrich THEN AddConstant(callee, object) ELSE callee
  IN IF bailout.result THEN bailout.outcome
     ELSE Outcome(
            [serializer EXCEPT
               !.call =
                  <<[callee |-> callee_hints,
                     walked |-> 0,
                     constants |-> callee_hints.constants,
                     function_blueprints |->
                       callee_hints.function_blueprints,
                     new_target |-> new_target,
                     arguments |-> arguments,
                     with_spread |-> with_spread]>>],
            cache, bailout.outcome.failed)

\* ProcessCallOrConstruct up to its loops over the callee hints, which the
\* steps RunChildSerializer, ChildReturns and FinishCall run: the call
\* record holds the callee, the hints the loops have not come to yet, and how
\* many child serializers walked a body for this call.  new_target is <<>> for
\* a call and <<hints>> for a construct.
ProcessCallOrConstruct(serializer, cache, callee, new_target, arguments, slot, with_spread) ==
  LET bailout == BailoutOnUninitialized(serializer, cache, slot)
      object == GetHeapObjectFeedback(serializer.environment.function[2],
                                      slot)
      enrich == object # "none" /\ is_callable(object)
      callee_hints == IF enrich THEN AddConstant(callee, object) ELSE callee
      target ==
        IF enrich /\ new_target # <<>>
        THEN <<AddConstant(new_target[1], object)>> ELSE new_target
      env == serializer.environment
  IN IF bailout.result THEN bailout.outcome
     ELSE Outcome(
            [serializer EXCEPT
               !.environment =
                  WithAccumulatorHints(env, Clear(accumulator_hints(env))),
               !.call =
                  <<[callee |-> callee_hints,
                     walked |-> 0,
                     constants |-> callee_hints.constants,
                     function_blueprints |->
                       callee_hints.function_blueprints,
                     new_target |-> target,
                     arguments |-> arguments,
                     with_spread |-> with_spread]>>],
            cache, bailout.outcome.failed)

UndefinedReceiver == AddConstant(EmptyHints, UndefinedValue)

HintsOfRegisters(env, regs) ==
  [i \in 1..Len(regs) |-> register_hints(env, regs[i])]

\* VisitCallUndefinedReceiver0, 1 and 2
VisitCallUndefinedReceiverN(serializer, cache, iterator) ==
  LET env == serializer.environment
      callee == register_hints(env, iterator.callee)
      parameters == <<UndefinedReceiver>> \o HintsOfRegisters(env, iterator.args)
  IN ProcessCallOrConstruct(serializer, cache, callee, <<>>, parameters,
                            iterator.slot, FALSE)

\* VisitCallProperty0, 1 and 2
VisitCallPropertyN(serializer, cache, iterator) ==
  LET env == serializer.environment
      callee == register_hints(env, iterator.callee)
      parameters == HintsOfRegisters(env, iterator.args)
  IN ProcessCallOrConstruct(serializer, cache, callee, <<>>, parameters,
                            iterator.slot, FALSE)

kNullOrUndefined == "kNullOrUndefined"
kAny == "kAny"

ProcessCallVarArgs(serializer, cache, iterator, receiver_mode, with_spread) ==
  LET env == serializer.environment
      callee == register_hints(env, iterator.callee)
      receiver == IF receiver_mode = kNullOrUndefined
                  THEN <<UndefinedReceiver>> ELSE <<>>
      arguments ==
        ExportRegisterHints(env, iterator.first, iterator.count, receiver)
  IN ProcessCallOrConstruct(serializer, cache, callee, <<>>, arguments,
                            iterator.slot, FALSE)

VisitCallUndefinedReceiver(serializer, cache, iterator) ==
  ProcessCallVarArgs(serializer, cache, iterator, kNullOrUndefined, FALSE)

VisitCallAnyReceiver(serializer, cache, iterator) ==
  ProcessCallVarArgs(serializer, cache, iterator, kAny, FALSE)

VisitCallProperty(serializer, cache, iterator) ==
  ProcessCallVarArgs(serializer, cache, iterator, kNullOrUndefined, FALSE)

VisitCallWithSpread(serializer, cache, iterator) ==
  ProcessCallVarArgs(serializer, cache, iterator, kAny, TRUE)

VisitConstruct(serializer, cache, iterator) ==
  LET env == serializer.environment
      callee == register_hints(env, iterator.callee)
      new_target == accumulator_hints(env)
      arguments ==
        ExportRegisterHints(env, iterator.first, iterator.count, <<>>)
  IN ProcessCallOrConstruct(serializer, cache, callee, <<new_target>>,
                            arguments, iterator.slot, FALSE)

VisitConstructWithSpread(serializer, cache, iterator) ==
  LET env == serializer.environment
      callee == register_hints(env, iterator.callee)
      new_target == accumulator_hints(env)
      arguments ==
        ExportRegisterHints(env, iterator.first, iterator.count, <<>>)
  IN ProcessCallOrConstruct(serializer, cache, callee, <<new_target>>,
                            arguments, iterator.slot, TRUE)

\* The arguments the child serializer is built with.
ChildArguments(function, arguments, with_spread) ==
  IF with_spread
  THEN LET popped == SubSeq(arguments, 1, Len(arguments) - 1)
           count ==
             SharedFunctionInfo[function.blueprint[1]].parameter_count
       IN [i \in 1..count |->
             IF i <= Len(popped) THEN popped[i] ELSE EmptyHints]
  ELSE arguments

\* Flags of a child serializer that are the parent's.
ChildFlagsOfParent(flags) == flags

\* flags().without(SerializerForBackgroundCompilationFlag::kOsr)
ChildFlags(flags) == flags \ {kOsr}

\* Run without the mark: it looks for the mark and leaves none.
RunUnmarked(function, marks) ==
  [walks |-> ~IsSerializedForCompilation(marks, function[1], function[2]),
   serialized |-> marks,
   hints |-> EmptyHints]

\* Run without the guard: it leaves the mark and does not look for it.
RunUnguarded(function, marks) ==
  [walks |-> TRUE,
   serialized |->
     SetSerializedForCompilation(marks, function[1], function[2]),
   hints |-> EmptyHints]

\* Run up to TraverseBytecode: whether it goes on to walk the bytecode, the
\* marks it leaves, and the hints it returns when it does not walk.
Run(function, marks) ==
  IF IsSerializedForCompilation(marks, function[1], function[2])
  THEN [walks |-> FALSE, serialized |-> marks, hints |-> EmptyHints]
  ELSE [walks |-> TRUE,
        serialized |->
          SetSerializedForCompilation(marks, function[1], function[2]),
        hints |-> EmptyHints]

\* The callee hints of a call the loops of ProcessCallOrConstruct run a child
\* serializer for: the subjects of the JSFunction constants, and those of the
\* blueprints.
ConstantSubjects(call) ==
  {SubjectOfClosure(hint) :
     hint \in {c \in call.constants :
                 /\ IsJSFunction(c)
                 /\ SharedFunctionInfo[JSFunction[c].shared].inlineable
                 /\ has_feedback_vector(c)}}

BlueprintSubjects(call) ==
  {SubjectOfBlueprint(hint) :
     hint \in {b \in call.function_blueprints :
                 SharedFunctionInfo[b[1]].inlineable}}

\* Without a hint whose turn in the loop has come.
WithoutHint(call, function) ==
  IF function.closure # "none"
  THEN [call EXCEPT !.constants = @ \ {function.closure}]
  ELSE [call EXCEPT !.function_blueprints = @ \ {function.blueprint}]

\* The hints a child serializer still has to walk for: the constants come
\* before the blueprints, and a set gives its elements in an order of its own.
NextSubjects(call, marks) ==
  LET walking(subjects) ==
        {f \in subjects : Run(f.blueprint, marks).walks}
  IN IF walking(ConstantSubjects(call)) # {}
     THEN walking(ConstantSubjects(call))
     ELSE walking(BlueprintSubjects(call))

----------------------------------------------------------------------------
(* Global accesses.  The feedback of a global access is known by whether   *)
(* it is there and has a constant hint.                                    *)

\* ProcessFeedbackForGlobalAccess(slot): the result and the broker's cache.
ProcessFeedbackForGlobalAccess(serializer, cache, slot) ==
  LET source == Source(serializer, slot)
      processed == BrokerGlobalAccessFeedback(source[1], slot)
  IN IF slot = InvalidSlot THEN [feedback |-> "nullptr", cache |-> cache]
     ELSE IF source[1] = NoVector
     THEN [feedback |-> "nullptr", cache |-> cache]
     ELSE IF HasFeedback(cache, source)
     THEN [feedback |-> cache[source], cache |-> cache]
     ELSE [feedback |-> processed,
           cache |-> SetFeedback(cache, source, processed)]

VisitLdaGlobal(serializer, cache, iterator) ==
  LET env == serializer.environment
      global == ProcessFeedbackForGlobalAccess(serializer, cache,
                                               iterator.slot)
      value == GetConstantHint(global.feedback)
      hints == IF value # <<>> THEN AddConstant(EmptyHints, value[1])
               ELSE EmptyHints
  IN Outcome([serializer EXCEPT
                !.environment = WithAccumulatorHints(env, hints)],
             global.cache, {})

VisitStaGlobal(serializer, cache, iterator) ==
  Outcome(serializer,
          ProcessFeedbackForGlobalAccess(serializer, cache,
                                         iterator.slot).cache,
          {})

----------------------------------------------------------------------------
(* Property accesses.  The processed feedback the broker keeps for a       *)
(* source is known by its kind: InsufficientFeedback, NamedAccessFeedback, *)
(* ElementAccessFeedback, or nullptr.                                      *)

kLoad == "kLoad"
kStore == "kStore"
kStoreInLiteral == "kStoreInLiteral"
kHas == "kHas"

\* FeedbackNexus(vector, slot).ExtractMaps(&maps)
ExtractMaps(vector, slot) ==
  IF slot \in PropertySlots THEN PropertyNexus[slot].maps ELSE {}

\* broker()->GetNameFeedback(nexus): <<>> or <<name>>.
GetNameFeedback(vector, slot) ==
  IF slot \in PropertySlots /\ PropertyNexus[slot].name # "none"
  THEN <<PropertyNexus[slot].name>> ELSE <<>>

\* FeedbackNexus(vector, slot).GetKeyType()
GetKeyType(vector, slot) ==
  IF slot \in PropertySlots THEN PropertyNexus[slot].key_type ELSE "PROPERTY"

\* The maps that can be updated and are no abandoned prototype maps.
GetRelevantReceiverMaps(maps) ==
  {updated \in {TryUpdate(map) : map \in maps} :
     updated # "none" /\ ~is_abandoned_prototype_map(updated)}

ProcessFeedbackMapsForElementAccess(maps, mode) == "ElementAccessFeedback"

ProcessFeedbackMapsForNamedAccess(maps, mode, name) == "NamedAccessFeedback"

\* ProcessFeedbackForPropertyAccess that takes every feedback for
\* insufficient.
ProcessFeedbackAsInsufficient(serializer, cache, slot, mode, static_name) ==
  IF slot = InvalidSlot THEN cache
  ELSE SetFeedback(cache, Source(serializer, slot), "InsufficientFeedback")

\* ProcessFeedbackForPropertyAccess that processes the feedback of a source
\* the broker has feedback for, and sets it.
ProcessFeedbackOverwrites(serializer, cache, slot, mode, static_name) ==
  LET feedback_vector == serializer.environment.function[2]
      source == Source(serializer, slot)
      extracted == ExtractMaps(feedback_vector, slot)
      maps == GetRelevantReceiverMaps(extracted)
      name == IF static_name # <<>> THEN static_name
              ELSE GetNameFeedback(feedback_vector, slot)
  IN IF slot = InvalidSlot THEN cache
     ELSE IF feedback_vector = NoVector THEN cache
     ELSE IF ic_state(feedback_vector, slot) = "UNINITIALIZED"
     THEN SetFeedback(cache, source, "InsufficientFeedback")
     ELSE IF Cardinality(extracted) = 0
     THEN SetFeedback(cache, source, "nullptr")
     ELSE IF maps = {}
     THEN SetFeedback(cache, source, "InsufficientFeedback")
     ELSE IF name # <<>>
     THEN SetFeedback(cache, source,
                      ProcessFeedbackMapsForNamedAccess(maps, mode, name[1]))
     ELSE IF /\ GetKeyType(feedback_vector, slot) = "ELEMENT"
             /\ ic_state(feedback_vector, slot) # "MEGAMORPHIC"
     THEN SetFeedback(cache, source,
                      ProcessFeedbackMapsForElementAccess(maps, mode))
     ELSE SetFeedback(cache, source, "nullptr")

\* The feedback cache ProcessFeedbackForPropertyAccess leaves; static_name
\* is <<>> or <<name>>.
ProcessFeedbackForPropertyAccess(serializer, cache, slot, mode, static_name) ==
  LET feedback_vector == serializer.environment.function[2]
      source == Source(serializer, slot)
      extracted == ExtractMaps(feedback_vector, slot)
      maps == GetRelevantReceiverMaps(extracted)
      name == IF static_name # <<>> THEN static_name
              ELSE GetNameFeedback(feedback_vector, slot)
  IN IF slot = InvalidSlot THEN cache
     ELSE IF feedback_vector = NoVector THEN cache
     ELSE IF HasFeedback(cache, source) THEN cache
     ELSE IF ic_state(feedback_vector, slot) = "UNINITIALIZED"
     THEN SetFeedback(cache, source, "InsufficientFeedback")
     ELSE IF Cardinality(extracted) = 0
     THEN SetFeedback(cache, source, "nullptr")
     ELSE IF maps = {}
     THEN SetFeedback(cache, source, "InsufficientFeedback")
     ELSE IF name # <<>>
     THEN SetFeedback(cache, source,
                      ProcessFeedbackMapsForNamedAccess(maps, mode, name[1]))
     ELSE IF /\ GetKeyType(feedback_vector, slot) = "ELEMENT"
             /\ ic_state(feedback_vector, slot) # "MEGAMORPHIC"
     THEN SetFeedback(cache, source,
                      ProcessFeedbackMapsForElementAccess(maps, mode))
     ELSE SetFeedback(cache, source, "nullptr")

\* What a property access leaves when it has not bailed out: the feedback
\* of the slot is processed, and the accumulator cleared.
AfterPropertyAccess(serializer, cache, failures) ==
  LET env == serializer.environment
  IN Outcome([serializer EXCEPT
                !.environment =
                   WithAccumulatorHints(env, Clear(accumulator_hints(env)))],
             cache, failures)

ProcessKeyedPropertyAccess(serializer, cache, receiver, key, slot, mode) ==
  LET bailout == BailoutOnUninitialized(serializer, cache, slot)
  IN IF bailout.result THEN bailout.outcome
     ELSE AfterPropertyAccess(
            serializer,
            ProcessFeedbackForPropertyAccess(serializer, cache, slot, mode,
                                             <<>>),
            bailout.outcome.failed)

\* A named property access that leaves the accumulator as it is.
NamedAccessKeepsAccumulator(serializer, cache, receiver, name, slot, mode) ==
  Outcome(serializer,
          ProcessFeedbackForPropertyAccess(serializer, cache, slot, mode,
                                           <<name>>),
          {})

\* ProcessNamedPropertyAccess(Hints const&, NameRef const&, FeedbackSlot,
\* AccessMode)
ProcessNamedPropertyAccess(serializer, cache, receiver, name, slot, mode) ==
  LET bailout == BailoutOnUninitialized(serializer, cache, slot)
  IN IF bailout.result THEN bailout.outcome
     ELSE AfterPropertyAccess(
            serializer,
            ProcessFeedbackForPropertyAccess(serializer, cache, slot, mode,
                                             <<name>>),
            bailout.outcome.failed)

\* ProcessNamedPropertyAccess(BytecodeArrayIterator*, AccessMode)
ProcessNamedPropertyAccessAt(serializer, cache, iterator, mode) ==
  ProcessNamedPropertyAccess(
    serializer, cache, register_hints(serializer.environment, iterator.reg),
    iterator.name, iterator.slot, mode)

VisitLdaNamedProperty(serializer, cache, iterator) ==
  ProcessNamedPropertyAccessAt(serializer, cache, iterator, kLoad)

VisitStaNamedProperty(serializer, cache, iterator) ==
  ProcessNamedPropertyAccessAt(serializer, cache, iterator, kStore)

VisitStaNamedOwnProperty(serializer, cache, iterator) ==
  ProcessNamedPropertyAccessAt(serializer, cache, iterator, kStoreInLiteral)

VisitLdaKeyedProperty(serializer, cache, iterator) ==
  LET env == serializer.environment
  IN ProcessKeyedPropertyAccess(serializer, cache,
                                register_hints(env, iterator.reg),
                                accumulator_hints(env), iterator.slot, kLoad)

VisitTestIn(serializer, cache, iterator) ==
  LET env == serializer.environment
  IN ProcessKeyedPropertyAccess(serializer, cache, accumulator_hints(env),
                                register_hints(env, iterator.reg),
                                iterator.slot, kHas)

VisitStaKeyedProperty(serializer, cache, iterator) ==
  LET env == serializer.environment
  IN ProcessKeyedPropertyAccess(serializer, cache,
                                register_hints(env, iterator.reg),
                                register_hints(env, iterator.key),
                                iterator.slot, kStore)

VisitStaInArrayLiteral(serializer, cache, iterator) ==
  LET env == serializer.environment
  IN ProcessKeyedPropertyAccess(serializer, cache,
                                register_hints(env, iterator.reg),
                                register_hints(env, iterator.key),
                                iterator.slot, kStoreInLiteral)

----------------------------------------------------------------------------
(* One iteration of the loop of TraverseBytecode.                          *)

\* Up to the dispatch: the jump target environment is incorporated, a dead
\* environment is revived or the bytecode is skipped.
BeginBytecode(serializer, iterator) ==
  LET merged == IncorporateJumpTargetEnvironment(serializer,
                                                 serializer.offset)
      failures == IncorporateFailures(serializer, serializer.offset)
      matched == CurrentBytecodeIsExceptionHandlerStart(merged)
      moved == [merged EXCEPT
                  !.handlers_iterator = matched.handlers_iterator]
  IN IF ~IsDead(merged.environment)
     THEN [skip |-> FALSE, outcome |-> Outcome(merged, <<>>, failures)]
     ELSE IF iterator.op = "ResumeGenerator"
     THEN [skip |-> FALSE,
           outcome |->
             Outcome([merged EXCEPT !.environment = Revive(@)], <<>>,
                     failures)]
     ELSE IF matched.result
     THEN [skip |-> FALSE,
           outcome |->
             Outcome([moved EXCEPT !.environment = Revive(@)], <<>>,
                     failures)]
     ELSE [skip |-> TRUE, outcome |-> Outcome(moved, <<>>, failures)]

\* The opcodes whose transfer function goes through accumulator_hints() or
\* register_hints().
TouchesHints(op) ==
  /\ OpcodeGroup(op) \in {"Visit", "CLEAR_ACCUMULATOR_LIST"}
  /\ op \notin {"SwitchOnSmiNoFeedback", "StaGlobal"}

\* What a handler that reads or writes hints leaves: the CHECKs of the hint
\* accessors run on the environment the handler started with.
Checked(serializer, iterator, outcome) ==
  [outcome EXCEPT
     !.failed = @ \cup (IF TouchesHints(iterator.op)
                        THEN AccessFailures(serializer.environment)
                        ELSE {})]

\* The switch of TraverseBytecode.
Visit(serializer, cache, iterator) ==
  LET env == serializer.environment
      op == iterator.op
      group == OpcodeGroup(op)
      on(e) == Checked(serializer, iterator,
                       OnEnvironment(serializer, cache, e))
  IN CASE op = "LdaUndefined" -> on(VisitLdaUndefined(env, iterator))
       [] op = "LdaSmi" -> on(VisitLdaSmi(env, iterator))
       [] op = "Ldar" -> on(VisitLdar(env, iterator))
       [] op = "Star" -> on(VisitStar(env, iterator))
       [] op = "Mov" -> on(VisitMov(env, iterator))
       [] op = "CreateClosure" -> on(VisitCreateClosure(env, iterator))
       [] op = "GetSuperConstructor" ->
            on(VisitGetSuperConstructor(env, iterator))
       [] op = "Return" -> on(VisitReturn(env, iterator))
       [] op = "SwitchOnSmiNoFeedback" ->
            Outcome(VisitSwitchOnSmiNoFeedback(serializer, iterator), cache,
                    SwitchFailures(serializer, iterator))
       [] op \in {"CallUndefinedReceiver0", "CallUndefinedReceiver1",
                  "CallUndefinedReceiver2"} ->
            Checked(serializer, iterator,
                    VisitCallUndefinedReceiverN(serializer, cache, iterator))
       [] op \in {"CallProperty0", "CallProperty1", "CallProperty2"} ->
            Checked(serializer, iterator,
                    VisitCallPropertyN(serializer, cache, iterator))
       [] op = "CallUndefinedReceiver" ->
            Checked(serializer, iterator,
                    VisitCallUndefinedReceiver(serializer, cache, iterator))
       [] op = "CallAnyReceiver" ->
            Checked(serializer, iterator,
                    VisitCallAnyReceiver(serializer, cache, iterator))
       [] op = "CallProperty" ->
            Checked(serializer, iterator,
                    VisitCallProperty(serializer, cache, iterator))
       [] op = "CallWithSpread" ->
            Checked(serializer, iterator,
                    VisitCallWithSpread(serializer, cache, iterator))
       [] op = "Construct" ->
            Checked(serializer, iterator,
                    VisitConstruct(serializer, cache, iterator))
       [] op = "ConstructWithSpread" ->
            Checked(serializer, iterator,
                    VisitConstructWithSpread(serializer, cache, iterator))
       [] op = "LdaGlobal" ->
            Checked(serializer, iterator,
                    VisitLdaGlobal(serializer, cache, iterator))
       [] op = "StaGlobal" ->
            Checked(serializer, iterator,
                    VisitStaGlobal(serializer, cache, iterator))
       [] op = "LdaNamedProperty" ->
            Checked(serializer, iterator,
                    VisitLdaNamedProperty(serializer, cache, iterator))
       [] op = "StaNamedProperty" ->
            Checked(serializer, iterator,
                    VisitStaNamedProperty(serializer, cache, iterator))
       [] op = "StaNamedOwnProperty" ->
            Checked(serializer, iterator,
                    VisitStaNamedOwnProperty(serializer, cache, iterator))
       [] op = "LdaKeyedProperty" ->
            Checked(serializer, iterator,
                    VisitLdaKeyedProperty(serializer, cache, iterator))
       [] op = "TestIn" ->
            Checked(serializer, iterator,
                    VisitTestIn(serializer, cache, iterator))
       [] op = "StaKeyedProperty" ->
            Checked(serializer, iterator,
                    VisitStaKeyedProperty(serializer, cache, iterator))
       [] op = "StaInArrayLiteral" ->
            Checked(serializer, iterator,
                    VisitStaInArrayLiteral(serializer, cache, iterator))
       [] group = "CONDITIONAL_JUMPS_LIST" ->
            Outcome(VisitConditionalJump(serializer, iterator), cache,
                    ProcessJumpFailures(serializer, iterator))
       [] group = "UNCONDITIONAL_JUMPS_LIST" ->
            Outcome(VisitUnconditionalJump(serializer, iterator), cache,
                    ProcessJumpFailures(serializer, iterator))
       [] group = "KILL_ENVIRONMENT_LIST" ->
            Outcome([serializer EXCEPT
                       !.environment = VisitKill(env, iterator)],
                    cache, KillFailures(env))
       [] group = "CLEAR_ENVIRONMENT_LIST" ->
            on(VisitClearEnvironment(env, iterator))
       [] group = "CLEAR_ACCUMULATOR_LIST" ->
            on(VisitClearAccumulator(env, iterator))
       [] group = "IGNORED_BYTECODE_LIST" -> on(VisitIgnored(env, iterator))
       [] OTHER -> on(ClearEphemeralHints(env))

\* iterator.Advance()
Advance(serializer) ==
  [serializer EXCEPT !.offset = @ + 1, !.current_bytecode = NoBytecode]

\* The subjects of the callee hints of a call: Run is called for each.
Subjects(call) == ConstantSubjects(call) \cup BlueprintSubjects(call)

\* The turns of the loops that are left when no child serializer walks any
\* more add what Run returns at once to the accumulator; then
\* ProcessCallOrConstruct returns and the iterator advances.
EndCall(serializer, marks) ==
  LET env == serializer.environment
      returned ==
        {Run(f.blueprint, marks).hints : f \in Subjects(serializer.call[1])}
      added ==
        [constants |-> UNION {h.constants : h \in returned},
         maps |-> UNION {h.maps : h \in returned},
         function_blueprints |->
           UNION {h.function_blueprints : h \in returned}]
  IN Advance([serializer EXCEPT
                !.call = <<>>,
                !.environment =
                   WithAccumulatorHints(env,
                                        Add(accumulator_hints(env), added))])

\* The end of an iteration whose bytecode was dispatched: iterator.Advance(),
\* which after a call opcode that did not bail out comes when the loops of
\* ProcessCallOrConstruct have run.
EndIteration(visited, failures) ==
  Outcome(IF visited.serializer.call = <<>>
          THEN Advance(visited.serializer)
          ELSE visited.serializer,
          visited.feedback, failures \cup visited.failed)

\* The serializer the switch of TraverseBytecode finds when the bytecode is
\* not skipped.
AtSwitch(serializer, iterator) ==
  BeginBytecode([serializer EXCEPT !.current_bytecode = iterator],
                iterator).outcome.serializer

\* One iteration, for the bytecode the iterator stands at; visited is what
\* the case of the switch the bytecode is dispatched to leaves of
\* AtSwitch(serializer, iterator), and is not looked at when the bytecode is
\* skipped.
TraverseBytecode(serializer, cache, iterator, visited) ==
  LET begun == BeginBytecode([serializer EXCEPT
                                !.current_bytecode = iterator],
                             iterator)
  IN IF begun.skip
     THEN Outcome(Advance(begun.outcome.serializer), cache,
                  begun.outcome.failed)
     ELSE EndIteration(visited, begun.outcome.failed)

----------------------------------------------------------------------------
(* The compilation: a stack of serializers, the top-level one at the       *)
(* bottom and the child serializer that runs at the top.                   *)

Top == stack[Len(stack)]

Below == SubSeq(stack, 1, Len(stack) - 1)

Aborted == failed \cap Fatal # {}

\* The bytecodes that may stand at the iterator's offset.
Current == BytecodeArray(Top.environment.function[1])[Top.offset]

\* TraverseBytecode runs and stands at a bytecode it has not handled.
Dispatching ==
  /\ ~Aborted
  /\ Top.offset >= 1
  /\ ~Done(Top)
  /\ Top.call = <<>>

Skipped(iterator) == BeginBytecode(Top, iterator).skip

\* The state after an iteration of the loop of the running serializer.  The
\* loops of a call without a child serializer to walk for run in the
\* iteration.
Iteration(outcome) ==
  /\ failed' = failed \cup outcome.failed
  /\ IF outcome.failed \cap Fatal # {}
     THEN UNCHANGED <<stack, feedback, reached>>
     ELSE /\ stack' =
               Append(Below,
                      IF outcome.serializer.call # <<>>
                         /\ NextSubjects(outcome.serializer.call[1],
                                         serialized) = {}
                      THEN EndCall(outcome.serializer, serialized)
                      ELSE outcome.serializer)
          /\ feedback' = outcome.feedback
          /\ reached' =
               IF outcome.serializer.call = <<>> THEN reached
               ELSE reached \cup
                    {f.blueprint :
                       f \in Subjects(outcome.serializer.call[1])}
  /\ UNCHANGED <<serialized, results, walks>>
  /\ UNCHANGED envVars

\* An iteration for a bytecode of the given opcodes that is not skipped;
\* visited is what the case of the switch for these opcodes leaves.
Handle(iterator, ops, visited) ==
  /\ iterator.op \in ops
  /\ ~Skipped(iterator)
  /\ Iteration(TraverseBytecode(Top, feedback, iterator, visited))

SkipBytecode ==
  /\ Dispatching
  /\ \E iterator \in Current :
       /\ Skipped(iterator)
       /\ Iteration(TraverseBytecode(Top, feedback, iterator,
                                     Outcome(Top, feedback, {})))

OpcodesOf(group) ==
  {op \in {"Throw", "ResumeGenerator", "Debugger", "Add", "StackCheck",
           "Jump", "JumpIfTrue", "Unsupported"} : OpcodeGroup(op) = group}

HandleLdaUndefined ==
  /\ Dispatching
  /\ \E iterator \in Current :
       \E s \in {AtSwitch(Top, iterator)} :
         Handle(iterator, {"LdaUndefined"},
                Checked(s, iterator, OnEnvironment(s, feedback,
                  VisitLdaUndefined(s.environment, iterator))))

HandleLdaSmi ==
  /\ Dispatching
  /\ \E iterator \in Current :
       \E s \in {AtSwitch(Top, iterator)} :
         Handle(iterator, {"LdaSmi"},
                Checked(s, iterator, OnEnvironment(s, feedback,
                  VisitLdaSmi(s.environment, iterator))))

HandleLdar ==
  /\ Dispatching
  /\ \E iterator \in Current :
       \E s \in {AtSwitch(Top, iterator)} :
         Handle(iterator, {"Ldar"},
                Checked(s, iterator, OnEnvironment(s, feedback,
                  VisitLdar(s.environment, iterator))))

HandleStar ==
  /\ Dispatching
  /\ \E iterator \in Current :
       \E s \in {AtSwitch(Top, iterator)} :
         Handle(iterator, {"Star"},
                Checked(s, iterator, OnEnvironment(s, feedback,
                  VisitStar(s.environment, iterator))))

HandleMov ==
  /\ Dispatching
  /\ \E iterator \in Current :
       \E s \in {AtSwitch(Top, iterator)} :
         Handle(iterator, {"Mov"},
                Checked(s, iterator, OnEnvironment(s, feedback,
                  VisitMov(s.environment, iterator))))

HandleCreateClosure ==
  /\ Dispatching
  /\ \E iterator \in Current :
       \E s \in {AtSwitch(Top, iterator)} :
         Handle(iterator, {"CreateClosure"},
                Checked(s, iterator, OnEnvironment(s, feedback,
                  VisitCreateClosure(s.environment, iterator))))

HandleGetSuperConstructor ==
  /\ Dispatching
  /\ \E iterator \in Current :
       \E s \in {AtSwitch(Top, iterator)} :
         Handle(iterator, {"GetSuperConstructor"},
                Checked(s, iterator, OnEnvironment(s, feedback,
                  VisitGetSuperConstructor(s.environment, iterator))))

HandleReturn ==
  /\ Dispatching
  /\ \E iterator \in Current :
       \E s \in {AtSwitch(Top, iterator)} :
         Handle(iterator, {"Return"},
                Checked(s, iterator, OnEnvironment(s, feedback,
                  VisitReturn(s.environment, iterator))))

HandleSwitchOnSmiNoFeedback ==
  /\ Dispatching
  /\ \E iterator \in Current :
       \E s \in {AtSwitch(Top, iterator)} :
         Handle(iterator, {"SwitchOnSmiNoFeedback"},
                Outcome(VisitSwitchOnSmiNoFeedback(s, iterator), feedback,
                  SwitchFailures(s, iterator)))

HandleCallUndefinedReceiverN ==
  /\ Dispatching
  /\ \E iterator \in Current :
       \E s \in {AtSwitch(Top, iterator)} :
         Handle(iterator, {"CallUndefinedReceiver0", "CallUndefinedReceiver1",
           "CallUndefinedReceiver2"},
                Checked(s, iterator, VisitCallUndefinedReceiverN(s, feedback,
                  iterator)))

HandleCallPropertyN ==
  /\ Dispatching
  /\ \E iterator \in Current :
       \E s \in {AtSwitch(Top, iterator)} :
         Handle(iterator, {"CallProperty0", "CallProperty1", "CallProperty2"},
                Checked(s, iterator, VisitCallPropertyN(s, feedback,
                  iterator)))

HandleCallUndefinedReceiver ==
  /\ Dispatching
  /\ \E iterator \in Current :
       \E s \in {AtSwitch(Top, iterator)} :
         Handle(iterator, {"CallUndefinedReceiver"},
                Checked(s, iterator, VisitCallUndefinedReceiver(s, feedback,
                  iterator)))

HandleCallAnyReceiver ==
  /\ Dispatching
  /\ \E iterator \in Current :
       \E s \in {AtSwitch(Top, iterator)} :
         Handle(iterator, {"CallAnyReceiver"},
                Checked(s, iterator, VisitCallAnyReceiver(s, feedback,
                  iterator)))

HandleCallProperty ==
  /\ Dispatching
  /\ \E iterator \in Current :
       \E s \in {AtSwitch(Top, iterator)} :
         Handle(iterator, {"CallProperty"},
                Checked(s, iterator, VisitCallProperty(s, feedback,
                  iterator)))

HandleCallWithSpread ==
  /\ Dispatching
  /\ \E iterator \in Current :
       \E s \in {AtSwitch(Top, iterator)} :
         Handle(iterator, {"CallWithSpread"},
                Checked(s, iterator, VisitCallWithSpread(s, feedback,
                  iterator)))

HandleConstruct ==
  /\ Dispatching
  /\ \E iterator \in Current :
       \E s \in {AtSwitch(Top, iterator)} :
         Handle(iterator, {"Construct"},
                Checked(s, iterator, VisitConstruct(s, feedback, iterator)))

HandleConstructWithSpread ==
  /\ Dispatching
  /\ \E iterator \in Current :
       \E s \in {AtSwitch(Top, iterator)} :
         Handle(iterator, {"ConstructWithSpread"},
                Checked(s, iterator, VisitConstructWithSpread(s, feedback,
                  iterator)))

HandleLdaGlobal ==
  /\ Dispatching
  /\ \E iterator \in Current :
       \E s \in {AtSwitch(Top, iterator)} :
         Handle(iterator, {"LdaGlobal"},
                Checked(s, iterator, VisitLdaGlobal(s, feedback, iterator)))

HandleStaGlobal ==
  /\ Dispatching
  /\ \E iterator \in Current :
       \E s \in {AtSwitch(Top, iterator)} :
         Handle(iterator, {"StaGlobal"},
                Checked(s, iterator, VisitStaGlobal(s, feedback, iterator)))

HandleLdaNamedProperty ==
  /\ Dispatching
  /\ \E iterator \in Current :
       \E s \in {AtSwitch(Top, iterator)} :
         Handle(iterator, {"LdaNamedProperty"},
                Checked(s, iterator, VisitLdaNamedProperty(s, feedback, iterator)))

HandleStaNamedProperty ==
  /\ Dispatching
  /\ \E iterator \in Current :
       \E s \in {AtSwitch(Top, iterator)} :
         Handle(iterator, {"StaNamedProperty"},
                Checked(s, iterator, VisitStaNamedProperty(s, feedback, iterator)))

HandleStaNamedOwnProperty ==
  /\ Dispatching
  /\ \E iterator \in Current :
       \E s \in {AtSwitch(Top, iterator)} :
         Handle(iterator, {"StaNamedOwnProperty"},
                Checked(s, iterator, VisitStaNamedOwnProperty(s, feedback, iterator)))

HandleLdaKeyedProperty ==
  /\ Dispatching
  /\ \E iterator \in Current :
       \E s \in {AtSwitch(Top, iterator)} :
         Handle(iterator, {"LdaKeyedProperty"},
                Checked(s, iterator, VisitLdaKeyedProperty(s, feedback, iterator)))

HandleTestIn ==
  /\ Dispatching
  /\ \E iterator \in Current :
       \E s \in {AtSwitch(Top, iterator)} :
         Handle(iterator, {"TestIn"},
                Checked(s, iterator, VisitTestIn(s, feedback, iterator)))

HandleStaKeyedProperty ==
  /\ Dispatching
  /\ \E iterator \in Current :
       \E s \in {AtSwitch(Top, iterator)} :
         Handle(iterator, {"StaKeyedProperty"},
                Checked(s, iterator, VisitStaKeyedProperty(s, feedback, iterator)))

HandleStaInArrayLiteral ==
  /\ Dispatching
  /\ \E iterator \in Current :
       \E s \in {AtSwitch(Top, iterator)} :
         Handle(iterator, {"StaInArrayLiteral"},
                Checked(s, iterator, VisitStaInArrayLiteral(s, feedback, iterator)))

HandleConditionalJump ==
  /\ Dispatching
  /\ \E iterator \in Current :
       \E s \in {AtSwitch(Top, iterator)} :
         Handle(iterator, OpcodesOf("CONDITIONAL_JUMPS_LIST"),
                Outcome(VisitConditionalJump(s, iterator), feedback,
                  ProcessJumpFailures(s, iterator)))

HandleUnconditionalJump ==
  /\ Dispatching
  /\ \E iterator \in Current :
       \E s \in {AtSwitch(Top, iterator)} :
         Handle(iterator, OpcodesOf("UNCONDITIONAL_JUMPS_LIST"),
                Outcome(VisitUnconditionalJump(s, iterator), feedback,
                  ProcessJumpFailures(s, iterator)))

HandleKill ==
  /\ Dispatching
  /\ \E iterator \in Current :
       \E s \in {AtSwitch(Top, iterator)} :
         Handle(iterator, OpcodesOf("KILL_ENVIRONMENT_LIST"),
                Outcome([s EXCEPT !.environment = VisitKill(s.environment,
                  iterator)], feedback, KillFailures(s.environment)))

HandleClearEnvironment ==
  /\ Dispatching
  /\ \E iterator \in Current :
       \E s \in {AtSwitch(Top, iterator)} :
         Handle(iterator, OpcodesOf("CLEAR_ENVIRONMENT_LIST"),
                Checked(s, iterator, OnEnvironment(s, feedback,
                  VisitClearEnvironment(s.environment, iterator))))

HandleClearAccumulator ==
  /\ Dispatching
  /\ \E iterator \in Current :
       \E s \in {AtSwitch(Top, iterator)} :
         Handle(iterator, OpcodesOf("CLEAR_ACCUMULATOR_LIST"),
                Checked(s, iterator, OnEnvironment(s, feedback,
                  VisitClearAccumulator(s.environment, iterator))))

HandleIgnored ==
  /\ Dispatching
  /\ \E iterator \in Current :
       \E s \in {AtSwitch(Top, iterator)} :
         Handle(iterator, OpcodesOf("IGNORED_BYTECODE_LIST"),
                Checked(s, iterator, OnEnvironment(s, feedback,
                  VisitIgnored(s.environment, iterator))))

HandleUnsupported ==
  /\ Dispatching
  /\ \E iterator \in Current :
       \E s \in {AtSwitch(Top, iterator)} :
         Handle(iterator, OpcodesOf("default"),
                Checked(s, iterator, OnEnvironment(s, feedback,
                  ClearEphemeralHints(s.environment))))

\* The pairs Run was called for and walked the bytecode of, each with the
\* number of its walks.
Walked(bag, pair) == bag (+) SetToBag({pair})

\* A turn of a loop of ProcessCallOrConstruct that runs a child serializer
\* whose Run walks: up to the start of the child's TraverseBytecode.
RunChildSerializer ==
  /\ ~Aborted
  /\ stack # <<>>
  /\ Top.call # <<>>
  /\ \E function \in NextSubjects(Top.call[1], serialized) :
       LET call == Top.call[1]
           flags == ChildFlags(Top.flags)
           child ==
             ChildSerializer(
               function, call.new_target,
               ChildArguments(function, call.arguments, call.with_spread),
               flags)
           run == Run(function.blueprint, serialized)
           parent ==
             [Top EXCEPT
                !.call = <<[WithoutHint(call, function) EXCEPT
                              !.walked = @ + 1]>>]
       IN /\ stack' = Append(Append(Below, parent), StartTraversal(child))
          /\ serialized' = run.serialized
          /\ walks' = Walked(walks, function.blueprint)
          /\ failed' =
               failed \cup ChildSerializerFailures(flags) \cup
               (IF call.with_spread /\ Len(call.arguments) = 0
                THEN {"DCHECK_LT(0, arguments.size())"} ELSE {})
  /\ UNCHANGED <<feedback, results, reached>>
  /\ UNCHANGED envVars

\* A return of the child's Run that adds the child's return value hints to
\* the caller's return value hints too.
ChildReturnsIntoReturnValue ==
  /\ ~Aborted
  /\ Len(stack) >= 2
  /\ Done(Top)
  /\ LET parent == stack[Len(stack) - 1]
         env == parent.environment
         added ==
           WithAccumulatorHints(
             [env EXCEPT
                !.return_value_hints =
                   Add(@, Top.environment.return_value_hints)],
             Add(accumulator_hints(env),
                 Top.environment.return_value_hints))
     IN stack' = Append(SubSeq(stack, 1, Len(stack) - 2),
                        [parent EXCEPT !.environment = added])
  /\ UNCHANGED <<serialized, feedback, results, walks, reached, failed>>
  /\ UNCHANGED envVars

\* The child serializer's Run returns: the caller adds its return value hints
\* to the accumulator.
ChildReturns ==
  /\ ~Aborted
  /\ Len(stack) >= 2
  /\ Done(Top)
  /\ LET parent == stack[Len(stack) - 1]
         env == parent.environment
         added ==
           WithAccumulatorHints(
             env, Add(accumulator_hints(env),
                      Top.environment.return_value_hints))
     IN stack' = Append(SubSeq(stack, 1, Len(stack) - 2),
                        [parent EXCEPT !.environment = added])
  /\ UNCHANGED <<serialized, feedback, results, walks, reached, failed>>
  /\ UNCHANGED envVars

\* The loops of ProcessCallOrConstruct end: the turns that are left are for
\* hints without a child serializer, or with one whose Run returns at once.
FinishCall ==
  /\ ~Aborted
  /\ stack # <<>>
  /\ Top.call # <<>>
  /\ NextSubjects(Top.call[1], serialized) = {}
  /\ stack' = Append(Below, EndCall(Top, serialized))
  /\ UNCHANGED <<serialized, feedback, results, walks, reached, failed>>
  /\ UNCHANGED envVars

\* Run of the top-level serializer, up to the start of TraverseBytecode.
RunTopLevel ==
  /\ ~Aborted
  /\ Len(stack) = 1
  /\ Top.offset = 0
  /\ Len(results) < MaxRuns
  /\ LET function == Top.environment.function
         run == Run(function, serialized)
     IN /\ reached' = reached \cup {function}
        /\ IF run.walks
           THEN /\ serialized' = run.serialized
                /\ walks' = Walked(walks, function)
                /\ stack' = <<StartTraversal(Top)>>
                /\ UNCHANGED results
           ELSE /\ results' = Append(results, run.hints)
                /\ UNCHANGED <<stack, serialized, walks>>
  /\ UNCHANGED <<feedback, failed>>
  /\ UNCHANGED envVars

\* Run of the top-level serializer returns the return value hints.
TopLevelReturns ==
  /\ ~Aborted
  /\ Len(stack) = 1
  /\ Top.offset >= 1
  /\ Done(Top)
  /\ results' = Append(results, Top.environment.return_value_hints)
  /\ stack' = <<[Top EXCEPT !.offset = 0]>>
  /\ UNCHANGED <<serialized, feedback, walks, reached, failed>>
  /\ UNCHANGED envVars

\* The closures a compilation job may be for.
TopLevelClosures ==
  {"fn_open", "fn_driver", "fn_store", "fn_diamond", "fn_dead", "fn_handler",
   "fn_access", "fn_lazycall", "fn_returns", "fn_join", "fn_outer",
   "fn_globals", "fn_tail"}

\* The flags a compilation job may have.
TopLevelFlags ==
  {{}, {kBailoutOnUninitialized},
   {kBailoutOnUninitialized, kOsr, kCollectSourcePositions}}

NotAnEnvironment == "none"

\* No operation of an environment has been called.
NoCall == [op |-> "none"]

Init ==
  /\ \E closure \in TopLevelClosures, flags \in TopLevelFlags :
       stack = <<TopLevelSerializer(closure, flags)>>
  /\ serialized = {}
  /\ feedback = <<>>
  /\ results = <<>>
  /\ walks = EmptyBag
  /\ reached = {}
  /\ failed = {}
  /\ self = NotAnEnvironment
  /\ other = NotAnEnvironment
  /\ before = NoCall

Next ==
  \/ RunTopLevel
  \/ TopLevelReturns
  \/ SkipBytecode
  \/ HandleLdaUndefined
  \/ HandleLdaSmi
  \/ HandleLdar
  \/ HandleStar
  \/ HandleMov
  \/ HandleCreateClosure
  \/ HandleGetSuperConstructor
  \/ HandleReturn
  \/ HandleSwitchOnSmiNoFeedback
  \/ HandleCallUndefinedReceiverN
  \/ HandleCallPropertyN
  \/ HandleCallUndefinedReceiver
  \/ HandleCallAnyReceiver
  \/ HandleCallProperty
  \/ HandleCallWithSpread
  \/ HandleConstruct
  \/ HandleConstructWithSpread
  \/ HandleLdaGlobal
  \/ HandleStaGlobal
  \/ HandleLdaNamedProperty
  \/ HandleStaNamedProperty
  \/ HandleStaNamedOwnProperty
  \/ HandleLdaKeyedProperty
  \/ HandleTestIn
  \/ HandleStaKeyedProperty
  \/ HandleStaInArrayLiteral
  \/ HandleConditionalJump
  \/ HandleUnconditionalJump
  \/ HandleKill
  \/ HandleClearEnvironment
  \/ HandleClearAccumulator
  \/ HandleIgnored
  \/ HandleUnsupported
  \/ RunChildSerializer
  \/ ChildReturns
  \/ FinishCall

Spec == Init /\ [][Next]_vars

\* The scheduling of a compilation job: it runs on one thread, which takes
\* the next step as long as there is one.
FairSpec == Spec /\ WF_vars(Next)

----------------------------------------------------------------------------
(* The operations of Environment on their own: on an environment self and  *)
(* an environment other of the same function, in any state.                *)

\* The hints of a register, of an accumulator or of the return value.
EnvironmentHints ==
  {EmptyHints,
   AddMap(AddConstant(EmptyHints, UndefinedValue), "map"),
   AddFunctionBlueprint(EmptyHints, <<"ident", "fv_ident">>)}

\* The environments of a function the serializer analyses as a closure.
Environments(closure) ==
  LET env == NewEnvironment(SubjectOfClosure(closure))
      size == ephemeral_hints_size(env)
  IN {[env EXCEPT !.return_value_hints = returned, !.ephemeral_hints = hints] :
        returned \in {EmptyHints, AddConstant(EmptyHints, UndefinedValue)},
        hints \in [1..size -> EnvironmentHints] \cup {<<>>}}

\* An operation: its name, self and its argument when it was called, and
\* the operation applied before it.
Called(op, argument) ==
  [op |-> op, self |-> self, other |-> argument, previous |-> before]

RECURSIVE Operations(_)
\* How many operations were applied, the given one last.
Operations(call) ==
  IF call.op = "none" THEN 0 ELSE 1 + Operations(call.previous)

\* Another operation may be applied.
Applicable ==
  /\ ~Aborted
  /\ Operations(before) < MaxOperations

\* self->Merge(argument), for environments of one function.
MergeInto(op, argument) ==
  /\ self.function = argument.function
  /\ before' = Called(op, argument)
  /\ self' = Merge(self, argument)
  /\ failed' = failed \cup MergeFailures(self, argument)
  /\ UNCHANGED other
  /\ UNCHANGED walkVars

EnvMerge ==
  /\ Applicable
  /\ MergeInto("Merge", other)

EnvMergeSelf ==
  /\ Applicable
  /\ MergeInto("MergeSelf", self)

EnvMergeCopy ==
  /\ Applicable
  /\ MergeInto("MergeCopy", Copy(self))

EnvKill ==
  /\ Applicable
  /\ before' = Called("Kill", other)
  /\ self' = Kill(self)
  /\ failed' = failed \cup KillFailures(self)
  /\ UNCHANGED other
  /\ UNCHANGED walkVars

EnvRevive ==
  /\ Applicable
  /\ before' = Called("Revive", other)
  /\ self' = Revive(self)
  /\ failed' = failed \cup ReviveFailures(self)
  /\ UNCHANGED other
  /\ UNCHANGED walkVars

\* The functions an Environment is constructed for, as an inlined callee.
InlinedSubjects ==
  {SubjectOfBlueprint(<<"second", "fv_second">>),
   SubjectOfClosure("fn_ident")}

\* self = new Environment(zone, isolate, function, new_target, arguments):
\* the delegated constructor, then the seeding of the parameters and of the
\* incoming new.target register.
EnvInlined ==
  /\ ~Aborted
  /\ before = NoCall
  /\ \E function \in InlinedSubjects,
        new_target \in {<<>>, <<AddConstant(EmptyHints, "fn_ident")>>},
        n \in 0..MaxArguments :
       \E arguments \in Tuples(EnvironmentHints, n) :
         /\ before' = [op |-> "Environment",
                       self |-> NewEnvironment(function), other |-> other,
                       previous |-> before, function |-> function,
                       new_target |-> new_target, arguments |-> arguments]
         /\ self' = InlinedEnvironment(function, new_target, arguments)
         /\ failed' = failed \cup InlinedFailures(function, arguments)
  /\ UNCHANGED other
  /\ UNCHANGED walkVars

InitEnv ==
  /\ \E closure \in {"fn_ident"} :
       /\ self \in Environments(closure)
       /\ other \in Environments(closure)
  /\ before = NoCall
  /\ stack = <<>>
  /\ serialized = {}
  /\ feedback = <<>>
  /\ results = <<>>
  /\ walks = EmptyBag
  /\ reached = {}
  /\ failed = {}

NextEnv ==
  \/ EnvMerge
  \/ EnvMergeSelf
  \/ EnvMergeCopy
  \/ EnvKill
  \/ EnvRevive
  \/ EnvInlined

SpecEnv == InitEnv /\ [][NextEnv]_vars

----------------------------------------------------------------------------
(* The operations of Hints, applied to the Hints self with the Hints other *)
(* as the argument.                                                        *)

\* The Hints over two constants, a map and a blueprint.
HintsValues ==
  {[constants |-> cs, maps |-> ms, function_blueprints |-> bs] :
     cs \in SUBSET {UndefinedValue, SmiFromInt(1)},
     ms \in SUBSET {"map"},
     bs \in SUBSET {<<"ident", "fv_ident">>}}

\* self.Add(other); the caller then has another argument at hand.
HintsAdd ==
  /\ Applicable
  /\ before' = Called("Add", other)
  /\ self' = Add(self, other)
  /\ other' \in HintsValues
  /\ UNCHANGED <<failed, walkVars>>

\* self.Add(self)
HintsAddSelf ==
  /\ Applicable
  /\ before' = Called("AddSelf", self)
  /\ self' = Add(self, self)
  /\ UNCHANGED <<other, failed, walkVars>>

InitHints ==
  /\ self \in HintsValues
  /\ other \in HintsValues
  /\ before = NoCall
  /\ stack = <<>>
  /\ serialized = {}
  /\ feedback = <<>>
  /\ results = <<>>
  /\ walks = EmptyBag
  /\ reached = {}
  /\ failed = {}

NextHints ==
  \/ HintsAdd
  \/ HintsAddSelf

SpecHints == InitHints /\ [][NextHints]_vars

----------------------------------------------------------------------------
(* Properties of a compilation.                                            *)

Frames == 1..Len(stack)

\* The frames a step keeps.
Kept == 1..Min(Len(stack), Len(stack'))

TopLevel == stack[1]

\* C1: over the Run invocations of a compilation, the bytecode of a (shared,
\* feedback vector) pair is walked at most once; a later Run on a marked
\* pair returns empty hints, walks nothing and changes no environment.
C1_WalkedAtMostOnce ==
  /\ [](/\ \A pair \in BagToSet(walks) : CopiesIn(pair, walks) <= 1
        /\ \A i \in 2..Len(results) : results[i] = EmptyHints)
  /\ [][/\ (Len(results') > Len(results) /\ TopLevel.offset = 0)
             => /\ stack' = stack
                /\ walks' = walks
                /\ results' = Append(results, EmptyHints)
        /\ (Top.call # <<>> /\ Len(stack') = Len(stack))
             => /\ walks' = walks
                /\ \A i \in Frames :
                     stack'[i].environment = stack[i].environment]_vars

\* A second Run of the top-level serializer returned, after the first one
\* had walked the bytecode and returned hints.
C1_SecondRunReturned ==
  /\ Len(results) = 2
  /\ results[1] # EmptyHints
  /\ <<"ident", "fv_ident">> \in BagToSet(walks)

\* C2: the top-level Run terminates, recursive and mutually recursive call
\* graphs included, and walks at most as many bytecode arrays as there are
\* distinct (shared, feedback vector) pairs reached from the top-level
\* function.
C2_TerminatesWithinReachedPairs ==
  /\ [](BagCardinality(walks) <= Cardinality(reached))
  /\ [](TopLevel.offset >= 1 => <>(TopLevel.offset = 0))

\* The top-level Run returned after the walks of two functions that call
\* each other.
C2_MutualRecursionReturned ==
  /\ Len(stack) = 1
  /\ TopLevel.offset = 0
  /\ results # <<>>
  /\ {<<"ping", "fv_ping">>, <<"pong", "fv_pong">>} \subseteq BagToSet(walks)

\* The call opcodes, without the ones with a spread and the constructs.
PlainCallOps ==
  CallFixedOps \cup {"CallUndefinedReceiver", "CallAnyReceiver", "CallProperty"}

\* The arguments of the call at a call site, receiver first.
CallSiteArguments(env, iterator) ==
  LET registers ==
        IF iterator.op \in CallFixedOps THEN iterator.args
        ELSE [i \in 1..iterator.count |->
                Local(iterator.first[2] + (i - 1))]
      receiver ==
        IF iterator.op \in {"CallUndefinedReceiver0", "CallUndefinedReceiver1",
                            "CallUndefinedReceiver2", "CallUndefinedReceiver"}
        THEN <<UndefinedReceiver>> ELSE <<>>
  IN receiver \o HintsOfRegisters(env, registers)

\* The functions whose body returns the receiver parameter.
ReturnsReceiver == {"ident"}

SeedsChild(frame, child) ==
  LET arguments ==
        CallSiteArguments(frame.environment, frame.current_bytecode)
  IN \A i \in 1..Min(Len(arguments), parameter_count(child.environment)) :
       child.environment.ephemeral_hints[i] = arguments[i]

ReturnsReceiverHints(frame) ==
  LET arguments ==
        CallSiteArguments(frame.environment, frame.current_bytecode)
      callee == frame.call[1].callee
  IN (/\ \E blueprint \in callee.function_blueprints :
           /\ callee.function_blueprints = {blueprint}
           /\ blueprint[1] \in ReturnsReceiver
           /\ CopiesIn(blueprint, walks) = 1
      /\ ~\E constant \in callee.constants : IsJSFunction(constant)
      /\ frame.call[1].walked = 1
      /\ arguments # <<>>)
     => accumulator_hints(frame.environment) = arguments[1]

\* C3: for every call opcode form, the child's parameter i is seeded with
\* the hints of the i-th argument of the call, receiver first; and when the
\* callee hints hold one inlinable blueprint, not serialized before, whose
\* body returns its receiver, the accumulator after the call equals the
\* receiver hints of the call site and the callee's pair is marked once.
C3_CallSeedsChild ==
  \A i \in Frames :
    (stack[i].call # <<>> /\ stack[i].current_bytecode.op \in PlainCallOps)
    => /\ (i < Len(stack) /\ stack[i + 1].offset = 1)
            => SeedsChild(stack[i], stack[i + 1])
       /\ (i = Len(stack) /\ NextSubjects(stack[i].call[1], serialized) = {})
            => ReturnsReceiverHints(stack[i])

\* The same for the call opcodes with explicit registers.
C3_FixedCallSeedsChild ==
  \A i \in Frames :
    (stack[i].call # <<>> /\ stack[i].current_bytecode.op \in CallFixedOps)
    => /\ (i < Len(stack) /\ stack[i + 1].offset = 1)
            => SeedsChild(stack[i], stack[i + 1])
       /\ (i = Len(stack) /\ NextSubjects(stack[i].call[1], serialized) = {})
            => ReturnsReceiverHints(stack[i])

IsCall(iterator) == iterator.op \in CallFixedOps \cup CallRangeOps

BailsOut(begun, outcome, source) ==
  /\ outcome.serializer.environment = Kill(begun.serializer.environment)
  /\ outcome.serializer.call = <<>>
  /\ outcome.serializer.offset = Top.offset + 1
  /\ HasFeedback(outcome.feedback, source)
  /\ outcome.feedback[source] = "InsufficientFeedback"

\* C4: with kBailoutOnUninitialized and without kOsr, a call or construct
\* whose feedback slot is uninitialized kills the environment, runs no child
\* serializer, does not update the accumulator, and leaves
\* InsufficientFeedback in the broker's cache for the (vector, slot) source.
C4_UninitializedCallBailsOut ==
  Dispatching =>
    \A iterator \in Current :
      (/\ IsCall(iterator)
       /\ ~Skipped(iterator)
       /\ kBailoutOnUninitialized \in Top.flags
       /\ kOsr \notin Top.flags
       /\ NexusIsUninitialized(Top.environment.function[2], iterator.slot))
      => BailsOut(BeginBytecode(Top, iterator).outcome,
                  TraverseBytecode(Top, feedback, iterator,
                                   Visit(AtSwitch(Top, iterator), feedback,
                                         iterator)),
                  Source(Top, iterator.slot))

\* The walk of the driver ended at its call, with nothing else walked.
C4_DriverBailedOut ==
  /\ Len(stack) = 1
  /\ TopLevel.environment.function[1] = "driver"
  /\ Done(TopLevel)
  /\ IsDead(TopLevel.environment)
  /\ HasFeedback(feedback, <<"fv_driver", 0>>)
  /\ BagToSet(walks) = {<<"driver", "fv_driver">>}

Decides(bailout, serializer, cache, slot) ==
  LET preconditions ==
        /\ kBailoutOnUninitialized \in serializer.flags
        /\ kOsr \notin serializer.flags
        /\ NexusIsUninitialized(serializer.environment.function[2], slot)
  IN /\ bailout.result <=> preconditions
     /\ bailout.result => IsDead(bailout.outcome.serializer.environment)
     /\ ~bailout.result => /\ bailout.outcome.serializer = serializer
                           /\ bailout.outcome.feedback = cache

\* C5: BailoutOnUninitialized(slot) kills the environment and returns true
\* if and only if the flag is set, the OSR flag is not, and the nexus of the
\* slot is uninitialized; otherwise it returns false and leaves the
\* environment and the feedback cache as they are.
C5_BailoutIffPreconditions ==
  (stack # <<>> /\ ~IsDead(Top.environment)) =>
    \A slot \in Slots \cup {InvalidSlot} :
      Decides(BailoutOnUninitialized(Top, feedback, slot), Top, feedback,
              slot)

\* The open function's environment was killed on an uninitialized slot.
C5_OpenBailedOut ==
  /\ stack # <<>>
  /\ TopLevel.environment.function[1] = "open"
  /\ IsDead(TopLevel.environment)
  /\ HasFeedback(feedback, <<"fv_open", 0>>)
  /\ kBailoutOnUninitialized \in TopLevel.flags

\* C6: over the walk of a function, return_value_hints of its environment
\* only grows: every step keeps the constants, maps and blueprints that
\* were in it.
C6_ReturnValueHintsGrow ==
  [][\A i \in Kept :
       Includes(stack'[i].environment.return_value_hints,
                stack[i].environment.return_value_hints)]_vars

\* A walk goes on after a Return that left hints in return_value_hints.
C6_WalkAfterReturn ==
  /\ stack # <<>>
  /\ Top.offset >= 2
  /\ ~Done(Top)
  /\ Top.environment.return_value_hints # EmptyHints

\* closure_hints right after the construction of an environment for a
\* function.
ConstructedClosureHints(function) ==
  {AddFunctionBlueprint(EmptyHints, function)} \cup
  {AddConstant(EmptyHints, closure) :
     closure \in {c \in DOMAIN JSFunction :
                    SubjectOfClosure(c).blueprint = function}}

\* C7: closure_hints of an environment stays what it was right after
\* construction, for every bytecode sequence, with the function closure
\* register as the destination of Star, Mov or GetSuperConstructor as well.
C7_ClosureHintsUnchanged ==
  \A i \in Frames :
    stack[i].environment.closure_hints
      \in ConstructedClosureHints(stack[i].environment.function)

\* C8: where a transfer function is dispatched, in the top-level and in
\* every child serializer, the ephemeral hints vector has parameter_count +
\* register_count + 2 entries; its only other length is 0, of a dead
\* environment.
C8_EphemeralHintsSize ==
  /\ \A i \in Frames :
       Len(stack[i].environment.ephemeral_hints)
         \in {0, ephemeral_hints_size(stack[i].environment)}
  /\ Dispatching =>
       \A iterator \in Current :
         ~Skipped(iterator) =>
           Len(BeginBytecode(Top, iterator).outcome.serializer
                 .environment.ephemeral_hints)
             = ephemeral_hints_size(Top.environment)

\* A dead environment stands at the start of an exception handler, where
\* it is revived before the dispatch.
C8_DeadAtHandlerStart ==
  /\ Dispatching
  /\ IsDead(Top.environment)
  /\ \E iterator \in Current : ~Skipped(iterator) /\ iterator.op = "Ldar"

\* The parameters and locals of an environment's function.
OrdinaryRegisters(env) ==
  {Parameter(i) : i \in 0..(parameter_count(env) - 1)}
  \cup {Local(i) : i \in 0..(register_count(env) - 1)}

\* The outcome of the first Run of the top-level serializer for a function.
Returned(shared) ==
  IF TopLevel.environment.function[1] = shared /\ results # <<>>
  THEN {results[1]} ELSE {}

\* C16: wherever a serializer stands with an alive environment, Star r and
\* then Ldar r, for a parameter or local r, leave in the accumulator the
\* hints it held before the Star; and Run for LdaSmi 7; Star r0; Ldar r0;
\* Return returns exactly {Smi(7)}.
C16_StarThenLdarKeepsAccumulator ==
  /\ \A i \in Frames :
       LET env == stack[i].environment
       IN ~IsDead(env) =>
            \A r \in OrdinaryRegisters(env) :
              accumulator_hints(VisitLdar(VisitStar(env, Star(r)), Ldar(r)))
                = accumulator_hints(env)
  /\ Returned("store") \subseteq {AddConstant(EmptyHints, SmiFromInt(7))}

\* Run returned for LdaSmi 7; Star r0; Ldar r0; Return.
C16_StoreReturned == Returned("store") # {}

\* C17: wherever a serializer stands with an alive environment, Mov a b and
\* then Mov b c leave in c at least the hints a held, for all registers a,
\* b and c, a = b and b = c included.
C17_MovThenMovKeepsHints ==
  \A i \in Frames :
    LET env == stack[i].environment
    IN ~IsDead(env) =>
         \A a \in OrdinaryRegisters(env), b \in OrdinaryRegisters(env),
            c \in OrdinaryRegisters(env) :
           Includes(register_hints(
                      VisitMov(VisitMov(env, Mov(a, b)), Mov(b, c)), c),
                    register_hints(env, a))

\* The call opcodes with a spread as the last register of the range.
SpreadCallOps == {"CallWithSpread", "ConstructWithSpread"}

\* The child serializer's parameters hold the hints of the registers before
\* the spread, and no hints after them.
SpreadSeedsChild(frame, child) ==
  LET arguments ==
        CallSiteArguments(frame.environment, frame.current_bytecode)
      explicit == SubSeq(arguments, 1, Len(arguments) - 1)
  IN \A i \in 1..parameter_count(child.environment) :
       child.environment.ephemeral_hints[i] =
         IF i <= Len(explicit) THEN explicit[i] ELSE EmptyHints

\* C15: for CallWithSpread and ConstructWithSpread with an inlinable callee,
\* the child serializer starts with the spread dropped from the arguments
\* and with empty hints in every parameter the arguments before the spread
\* do not cover.
C15_SpreadSeedsChild ==
  \A i \in Frames :
    (/\ stack[i].call # <<>>
     /\ stack[i].current_bytecode.op \in SpreadCallOps
     /\ i < Len(stack)
     /\ stack[i + 1].offset = 1)
    => SpreadSeedsChild(stack[i], stack[i + 1])

\* Slot by slot, the ephemeral hints of env include those of sub.
SlotsInclude(env, sub) ==
  /\ Len(env.ephemeral_hints) = Len(sub.ephemeral_hints)
  /\ \A i \in 1..Len(sub.ephemeral_hints) :
       Includes(env.ephemeral_hints[i], sub.ephemeral_hints[i])

\* The jump opcodes the walk contributes an environment for.
IsJump(iterator) ==
  OpcodeGroup(iterator.op)
    \in {"CONDITIONAL_JUMPS_LIST", "UNCONDITIONAL_JUMPS_LIST"}

\* A forward jump leaves the hints of the environment it is dispatched
\* with in the table, under its target.
JumpContributes ==
  Dispatching =>
    \A iterator \in Current :
      (/\ IsJump(iterator)
       /\ ~Skipped(iterator)
       /\ Top.offset < iterator.target)
      => LET table ==
               TraverseBytecode(Top, feedback, iterator,
                                Visit(AtSwitch(Top, iterator), feedback,
                                      iterator))
                 .serializer.jump_target_environments
         IN /\ iterator.target \in DOMAIN table
            /\ SlotsInclude(table[iterator.target],
                            AtSwitch(Top, iterator).environment)

\* At an offset with an entry in the table, the bytecode is dispatched with
\* the hints of the entry and, when the environment was alive, with the
\* hints it had.
TargetIncorporates ==
  (Dispatching /\ Top.offset \in DOMAIN Top.jump_target_environments) =>
    \A iterator \in Current :
      /\ ~Skipped(iterator)
      /\ SlotsInclude(AtSwitch(Top, iterator).environment,
                      Top.jump_target_environments[Top.offset])
      /\ ~IsDead(Top.environment)
           => SlotsInclude(AtSwitch(Top, iterator).environment,
                           Top.environment)

\* An entry of the table keeps its hints until the walk stands at its
\* offset.
EntriesKept ==
  \A i \in Kept :
    \A target \in DOMAIN stack[i].jump_target_environments :
      \/ stack[i].offset = target /\ i = Len(stack)
      \/ /\ target \in DOMAIN stack'[i].jump_target_environments
         /\ SlotsInclude(stack'[i].jump_target_environments[target],
                         stack[i].jump_target_environments[target])

\* C18: the hints of the alive environment a forward jump is dispatched
\* with are, slot by slot, in the environment the bytecode at the target is
\* dispatched with, next to the hints of the fall-through; and Run for
\* JumpIfTrue L; LdaSmi 1; Jump M; L: LdaSmi 2; M: Return returns hints
\* with Smi(1) and Smi(2).
C18_JumpHintsReachTarget ==
  /\ [](JumpContributes /\ TargetIncorporates)
  /\ [][EntriesKept]_vars
  /\ [](\A hints \in Returned("diamond") :
          {SmiFromInt(1), SmiFromInt(2)} \subseteq hints.constants)

\* Run returned for the diamond.
C18_DiamondReturned == Returned("diamond") # {}

\* The handler offsets of the handler table of the running function.
HandlerOffsets ==
  LET table == SharedFunctionInfo[Top.environment.function[1]].handlers
  IN {table[i] : i \in 1..Len(table)}

\* The walk stands, with a dead environment, at an offset without an entry
\* in the jump target table.
DeadAtBytecode ==
  /\ Dispatching
  /\ IsDead(Top.environment)
  /\ Top.offset \notin DOMAIN Top.jump_target_environments

\* The bytecode at the offset starts a handler or resumes a generator.
Revives(iterator) ==
  Top.offset \in HandlerOffsets \/ iterator.op = "ResumeGenerator"

\* C19: with a dead environment, a bytecode that is no pending jump target,
\* no start of an exception handler and no ResumeGenerator is skipped: the
\* iteration leaves the environment dead with the return_value_hints it
\* had, the jump target table and the feedback cache as they were, starts
\* no call and fails no assertion; and Run for LdaUndefined; Throw;
\* LdaSmi 42; Return returns empty hints.
C19_DeadBytecodeSkipped ==
  /\ DeadAtBytecode =>
       \A iterator \in Current :
         ~Revives(iterator) =>
           LET outcome ==
                 TraverseBytecode(Top, feedback, iterator,
                                  Visit(AtSwitch(Top, iterator), feedback,
                                        iterator))
           IN /\ Skipped(iterator)
              /\ outcome.serializer.environment = Top.environment
              /\ outcome.serializer.jump_target_environments
                   = Top.jump_target_environments
              /\ outcome.serializer.offset = Top.offset + 1
              /\ outcome.serializer.call = <<>>
              /\ outcome.feedback = feedback
              /\ outcome.failed = {}
  /\ Returned("dead") \subseteq {EmptyHints}

\* Run returned for LdaUndefined; Throw; LdaSmi 42; Return.
C19_DeadReturned == Returned("dead") # {}

\* C20: with a dead environment, a bytecode at the handler offset of a
\* range of the handler table, or a ResumeGenerator, is dispatched with the
\* environment revived: alive, and empty in every slot; and Run for a
\* function with two handlers behind dead bytecodes, each loading a
\* constant and returning, returns exactly the two constants.
C20_RevivedAtHandlerStart ==
  /\ DeadAtBytecode =>
       \A iterator \in Current :
         Revives(iterator) =>
           /\ ~Skipped(iterator)
           /\ AtSwitch(Top, iterator).environment
                = [Top.environment EXCEPT
                     !.ephemeral_hints =
                        [i \in 1..ephemeral_hints_size(Top.environment) |->
                           EmptyHints]]
  /\ Returned("handler")
       \subseteq {[EmptyHints EXCEPT
                     !.constants = {SmiFromInt(1), SmiFromInt(2)}]}

\* Run returned for the function with the two handlers.
C20_HandlerReturned == Returned("handler") # {}

\* The registers of an environment, the current context among them.
AllRegisters(env) == OrdinaryRegisters(env) \cup {CurrentContext}

\* The opcodes of the property accesses.
PropertyAccessOps == NamedAccessOps \cup KeyedAccessOps \cup KeyedStoreOps

\* The iteration for the bytecode leaves the null marker for the source of
\* its slot, an empty accumulator and the registers as they were.
CachesNullMarker(iterator) ==
  LET source == Source(Top, iterator.slot)
      outcome ==
        TraverseBytecode(Top, feedback, iterator,
                         Visit(AtSwitch(Top, iterator), feedback, iterator))
      env == outcome.serializer.environment
  IN /\ HasFeedback(outcome.feedback, source)
     /\ outcome.feedback[source] = "nullptr"
     /\ \A s \in DOMAIN feedback : outcome.feedback[s] = feedback[s]
     /\ ~IsDead(env)
     /\ IsEmpty(accumulator_hints(env))
     /\ \A r \in AllRegisters(env) :
          register_hints(env, r) = register_hints(Top.environment, r)
     /\ env.closure_hints = Top.environment.closure_hints

\* C21: LdaNamedProperty, StaNamedProperty and StaNamedOwnProperty on a
\* valid slot without cached feedback, whose nexus is initialized and holds
\* no maps, leave the null marker in the cache for the (vector, slot)
\* source, empty the accumulator and leave every register's hints.
C21_MegamorphicNamedAccess ==
  Dispatching =>
    \A iterator \in Current :
      (/\ iterator.op \in NamedAccessOps
       /\ ~Skipped(iterator)
       /\ iterator.slot # InvalidSlot
       /\ ~HasFeedback(feedback, Source(Top, iterator.slot))
       /\ ~NexusIsUninitialized(Top.environment.function[2], iterator.slot)
       /\ ExtractMaps(Top.environment.function[2], iterator.slot) = {})
      => CachesNullMarker(iterator)

\* The walk went on after an access on the megamorphic slot, with hints in
\* a register.
C21_MegamorphicCached ==
  /\ stack # <<>>
  /\ Top.environment.function[1] = "access"
  /\ Top.offset = 4
  /\ DOMAIN feedback = {<<"fv_access", 4>>}
  /\ feedback[<<"fv_access", 4>>] = "nullptr"
  /\ IsEmpty(accumulator_hints(Top.environment))
  /\ ~IsEmpty(register_hints(Top.environment, Local(0)))

\* Every map of the set is deprecated without an update, or the map of an
\* abandoned prototype.
AllFilteredOut(maps) ==
  \A map \in maps :
    TryUpdate(map) = "none" \/ is_abandoned_prototype_map(TryUpdate(map))

\* The kind of feedback the priority order gives for a slot.
KindByPriority(vector, slot, static_name) ==
  IF ic_state(vector, slot) = "UNINITIALIZED" THEN "InsufficientFeedback"
  ELSE IF ExtractMaps(vector, slot) = {} THEN "nullptr"
  ELSE IF AllFilteredOut(ExtractMaps(vector, slot))
  THEN "InsufficientFeedback"
  ELSE IF static_name # <<>> \/ GetNameFeedback(vector, slot) # <<>>
  THEN "NamedAccessFeedback"
  ELSE IF /\ GetKeyType(vector, slot) = "ELEMENT"
          /\ ic_state(vector, slot) # "MEGAMORPHIC"
  THEN "ElementAccessFeedback"
  ELSE "nullptr"

\* C30: ProcessFeedbackForPropertyAccess on a valid slot without cached
\* feedback caches one value for the source and leaves the other sources:
\* InsufficientFeedback for an uninitialized nexus, the null marker without
\* maps, InsufficientFeedback when every map is filtered out, named access
\* feedback with a static name or a name of the nexus, element access
\* feedback for the key type ELEMENT in a state other than megamorphic, and
\* the null marker otherwise; on an invalid slot it caches nothing.
C30_FeedbackByPriority ==
  stack # <<>> =>
    \A slot \in PropertySlots \cup {InvalidSlot},
       static_name \in {<<>>, <<"length">>},
       mode \in {kLoad, kStore, kStoreInLiteral, kHas} :
      LET source == Source(Top, slot)
          cache ==
            ProcessFeedbackForPropertyAccess(Top, feedback, slot, mode,
                                             static_name)
      IN IF slot = InvalidSlot THEN cache = feedback
         ELSE ~HasFeedback(feedback, source) =>
                /\ DOMAIN cache = DOMAIN feedback \cup {source}
                /\ \A s \in DOMAIN feedback : cache[s] = feedback[s]
                /\ cache[source] = KindByPriority(source[1], slot, static_name)

\* Two accesses left named access feedback for one slot and element access
\* feedback for another.
C30_NamedAndElementCached ==
  /\ stack # <<>>
  /\ Top.environment.function[1] = "access"
  /\ Top.offset = 5
  /\ \E named \in DOMAIN feedback, element \in DOMAIN feedback :
       /\ feedback[named] = "NamedAccessFeedback"
       /\ feedback[element] = "ElementAccessFeedback"

\* C22: ExportRegisterHints(first, count, dst) appends count hints to dst:
\* the result is count longer than dst, holds register_hints(first + i) at
\* the i-th place after the ones dst had, and begins with dst.
C22_ExportAppendsCount ==
  \A i \in Frames :
    LET env == stack[i].environment
    IN ~IsDead(env) =>
         \A first \in 0..(register_count(env) - 1),
            count \in 0..register_count(env),
            dst \in {<<>>, <<UndefinedReceiver>>} :
           first + count <= register_count(env) =>
             LET exported ==
                   ExportRegisterHints(env, Local(first), count, dst)
             IN /\ Len(exported) = Len(dst) + count
                /\ \A k \in 1..count :
                     exported[Len(dst) + k]
                       = register_hints(env, Local(first + (k - 1)))
                /\ SubSeq(exported, 1, Len(dst)) = dst

\* The environment with its accumulator emptied: every hint but the
\* accumulator's.
ButAccumulator(env) == WithAccumulatorHints(env, EmptyHints)

\* A call opcode that does not bail out empties the accumulator and leaves
\* the other hints of the environment it is dispatched with; without a
\* child serializer to walk for, the call ends with the accumulator empty.
CallDiscardsAccumulator ==
  Dispatching =>
    \A iterator \in Current :
      (IsCall(iterator) /\ ~Skipped(iterator)) =>
        LET begun == AtSwitch(Top, iterator)
            called ==
              TraverseBytecode(Top, feedback, iterator,
                               Visit(begun, feedback, iterator)).serializer
        IN called.call # <<>> =>
             /\ called.environment = ButAccumulator(begun.environment)
             /\ NextSubjects(called.call[1], serialized) = {} =>
                  EndCall(called, serialized).environment
                    = ButAccumulator(begun.environment)

\* The functions child serializers walked are inlineable and have a
\* feedback vector.
WalkedInlineable ==
  \A pair \in BagToSet(walks) :
    SharedFunctionInfo[pair[1]].inlineable /\ pair[2] # NoVector

\* The child serializer is for an inlineable function that is among the
\* callee hints of the call: a blueprint, or a constant with a feedback
\* vector.
ChildOfCall(call, child) ==
  LET function == child.environment.function
      closures == child.environment.closure_hints.constants
  IN /\ SharedFunctionInfo[function[1]].inlineable
     /\ \/ closures = {} /\ function \in call.function_blueprints
        \/ \E closure \in closures \cap call.constants :
             /\ has_feedback_vector(closure)
             /\ SubjectOfClosure(closure).blueprint = function

\* While a call is processed, a step changes the caller's environment only
\* when a child serializer returns: then the return value hints of the child
\* are added to the accumulator.
CallAddsReturned ==
  \A i \in Kept :
    stack[i].call # <<>> =>
      LET env == stack[i].environment
          after == stack'[i].environment
      IN IF i = Len(stack) - 1 /\ Len(stack') = Len(stack) - 1
         THEN LET returned == Top.environment.return_value_hints
              IN /\ ButAccumulator(after) = ButAccumulator(env)
                 /\ accumulator_hints(after) =
                      [constants |->
                         accumulator_hints(env).constants
                           \cup returned.constants,
                       maps |->
                         accumulator_hints(env).maps \cup returned.maps,
                       function_blueprints |->
                         accumulator_hints(env).function_blueprints
                           \cup returned.function_blueprints]
         ELSE /\ after = env
              /\ (i = Len(stack) /\ Len(stack') = Len(stack) + 1)
                   => ChildOfCall(stack[i].call[1], stack'[i + 1])

\* C24: a call or construct that does not bail out leaves in the
\* accumulator the union of the return value hints of the child serializers
\* run for it and nothing of what the accumulator held, leaves the other
\* hints of the caller, and runs child serializers only for inlineable
\* callees, constants among them only with a feedback vector.
C24_CallReturnsChildHints ==
  /\ [](CallDiscardsAccumulator /\ WalkedInlineable)
  /\ [][CallAddsReturned]_vars

\* The driver's call ended with the hints its callee returned in the
\* accumulator, which held a constant before, and with its registers as
\* they were.
C24_CallReturnedHints ==
  /\ Len(stack) = 1
  /\ TopLevel.environment.function[1] = "driver"
  /\ Done(TopLevel)
  /\ ~IsDead(TopLevel.environment)
  /\ accumulator_hints(TopLevel.environment)
       = AddConstant(EmptyHints, UndefinedValue)
  /\ register_hints(TopLevel.environment, Local(1))
       = AddConstant(EmptyHints, SmiFromInt(1))
  /\ BagCardinality(walks) = 2

\* The keys of the jump target table of a serializer.
Targets(serializer) == DOMAIN serializer.jump_target_environments

\* The keys of the table of every walking serializer are offsets the walk
\* has not handled: after the offset of the call that is processed, and not
\* before the offset the iterator has advanced to.
KeysAhead ==
  \A i \in Frames :
    stack[i].offset >= 1 =>
      \A target \in Targets(stack[i]) :
        IF stack[i].call # <<>> THEN target > stack[i].offset
        ELSE target >= stack[i].offset

\* What an iteration does to the table: the entry of the offset is taken
\* out before the dispatch, a forward jump adds its target, and a backward
\* jump, a jump to itself and every opcode but the switch leave the table.
JumpsAddForwardTargets ==
  Dispatching =>
    \A iterator \in Current :
      LET begun == AtSwitch(Top, iterator)
          left ==
            TraverseBytecode(Top, feedback, iterator,
                             Visit(begun, feedback, iterator)).serializer
      IN /\ Top.offset \notin Targets(begun)
         /\ Targets(begun) = Targets(Top) \ {Top.offset}
         /\ (~Skipped(iterator) /\ IsJump(iterator)
               /\ Top.offset < iterator.target)
              => Targets(left) = Targets(begun) \cup {iterator.target}
         /\ (~Skipped(iterator) /\ IsJump(iterator)
               /\ Top.offset >= iterator.target)
              => left.jump_target_environments
                   = begun.jump_target_environments
         /\ (Skipped(iterator)
               \/ ~(IsJump(iterator)
                      \/ iterator.op = "SwitchOnSmiNoFeedback"))
              => left.jump_target_environments
                   = begun.jump_target_environments

WithoutSwitch(shared) ==
  \A i \in 1..Len(BytecodeArray(shared)) :
    \A bytecode \in BytecodeArray(shared)[i] :
      bytecode.op # "SwitchOnSmiNoFeedback"

ContributesTo(iterator, target) ==
  /\ ~Skipped(iterator)
  /\ \/ IsJump(iterator) /\ iterator.target = target /\ Top.offset < target
     \/ iterator.op = "SwitchOnSmiNoFeedback" /\ target \in iterator.targets

\* A forward conditional jump leaves the environment it is dispatched with
\* and puts it into the entry of its target: as it is into a new entry, by
\* Merge into the entry there is.
ConditionalJumpStoresCopy ==
  Dispatching =>
    \A iterator \in Current :
      (/\ OpcodeGroup(iterator.op) = "CONDITIONAL_JUMPS_LIST"
       /\ ~Skipped(iterator)
       /\ Top.offset < iterator.target)
      => LET begun == AtSwitch(Top, iterator)
             left ==
               TraverseBytecode(Top, feedback, iterator,
                                Visit(begun, feedback, iterator)).serializer
             target == iterator.target
         IN /\ left.environment = begun.environment
            /\ target \in Targets(left)
            /\ target \notin Targets(begun)
                 => left.jump_target_environments[target]
                      = begun.environment
            /\ target \in Targets(begun)
                 => /\ SlotsInclude(left.jump_target_environments[target],
                                    begun.environment)
                    /\ SlotsInclude(left.jump_target_environments[target],
                                    begun.jump_target_environments[target])

\* An iteration leaves every entry of the table that its bytecode does not
\* contribute to, whatever it does to the environment.
DispatchKeepsEntries ==
  Dispatching =>
    \A iterator \in Current :
      LET begun == AtSwitch(Top, iterator)
          left ==
            TraverseBytecode(Top, feedback, iterator,
                             Visit(begun, feedback, iterator)).serializer
      IN \A target \in Targets(begun) :
           /\ target \in Targets(left)
           /\ \/ left.jump_target_environments[target]
                   = begun.jump_target_environments[target]
              \/ ContributesTo(iterator, target)

\* The steps that are no iteration of the running serializer leave every
\* table, and an iteration leaves the tables of the serializers below.
OtherStepsKeepTables ==
  \A i \in Kept :
    ~(i = Len(stack) /\ Dispatching) =>
      stack'[i].jump_target_environments = stack[i].jump_target_environments

\* C26: a forward conditional jump leaves the current environment, and what
\* it stores in the jump target table is a copy: the transfer functions
\* applied to the current environment afterwards leave the entry, which
\* changes only by a contribution to its offset.
C26_StoredEntryIsIndependent ==
  /\ [](ConditionalJumpStoresCopy /\ DispatchKeepsEntries)
  /\ [][OtherStepsKeepTables]_vars

\* The walk of the diamond has loaded a constant after the conditional
\* jump, whose entry holds the environment as it was at the jump.
C26_EntryKeptAfterLoad ==
  /\ stack # <<>>
  /\ Top.environment.function[1] = "diamond"
  /\ Top.offset = 3
  /\ Targets(Top) = {4}
  /\ ~IsEmpty(accumulator_hints(Top.environment))
  /\ IsEmpty(accumulator_hints(Top.jump_target_environments[4]))

\* The opcodes of CLEAR_ENVIRONMENT_LIST and those the dispatch has no case
\* for.
ClearsEnvironment(iterator) ==
  OpcodeGroup(iterator.op) \in {"CLEAR_ENVIRONMENT_LIST", "default"}

\* C27: an opcode outside the supported list, like one of the
\* clear-environment list, empties every ephemeral slot (parameters,
\* registers, accumulator, context) and leaves the closure hints, the return
\* value hints, the length of the vector (the environment stays alive) and
\* the jump target table.
C27_UnsupportedClearsEphemeral ==
  Dispatching =>
    \A iterator \in Current :
      (ClearsEnvironment(iterator) /\ ~Skipped(iterator))
      => LET begun == AtSwitch(Top, iterator)
             left ==
               TraverseBytecode(Top, feedback, iterator,
                                Visit(begun, feedback, iterator)).serializer
             held == begun.environment
             emptied == left.environment
         IN /\ ~IsDead(held)
            /\ ~IsDead(emptied)
            /\ Len(emptied.ephemeral_hints) = Len(held.ephemeral_hints)
            /\ \A i \in 1..Len(emptied.ephemeral_hints) :
                 IsEmpty(emptied.ephemeral_hints[i])
            /\ emptied.closure_hints = held.closure_hints
            /\ emptied.return_value_hints = held.return_value_hints
            /\ emptied.function = held.function
            /\ left.jump_target_environments
                 = begun.jump_target_environments

\* A serializer is to dispatch an opcode it has no case for, and another
\* one of the clear-environment list, with hints in a register.
C27_ClearsHeldHints ==
  /\ Dispatching
  /\ \E iterator \in Current :
       /\ iterator.op = "Unsupported"
       /\ ~Skipped(iterator)
       /\ \E i \in 1..Len(AtSwitch(Top, iterator).environment.ephemeral_hints) :
            ~IsEmpty(AtSwitch(Top, iterator).environment.ephemeral_hints[i])
  /\ \E iterator \in Current :
       /\ OpcodeGroup(iterator.op) = "CLEAR_ENVIRONMENT_LIST"
       /\ ~Skipped(iterator)

\* A dispatched Return adds the accumulator's hints to the return value
\* hints and empties every ephemeral slot of the environment, which keeps
\* its length.
ReturnClearsEphemeral ==
  Dispatching =>
    \A iterator \in Current :
      (iterator.op = "Return" /\ ~Skipped(iterator))
      => LET begun == AtSwitch(Top, iterator)
             left ==
               TraverseBytecode(Top, feedback, iterator,
                                Visit(begun, feedback, iterator)).serializer
             held == begun.environment
             emptied == left.environment
         IN /\ emptied.return_value_hints
                 = Add(held.return_value_hints, accumulator_hints(held))
            /\ ~IsDead(emptied)
            /\ Len(emptied.ephemeral_hints) = Len(held.ephemeral_hints)
            /\ \A i \in 1..Len(emptied.ephemeral_hints) :
                 IsEmpty(emptied.ephemeral_hints[i])
            /\ emptied.closure_hints = held.closure_hints

\* The bytecode after a Return, no jump target and no handler start, is
\* dispatched, with empty hints in every slot.
DispatchedAfterReturn ==
  (/\ Dispatching
   /\ Top.environment.function[1] = "returns"
   /\ Top.offset = 3)
  => /\ \A iterator \in Current : ~Skipped(iterator)
     /\ ~IsDead(Top.environment)
     /\ \A i \in 1..Len(Top.environment.ephemeral_hints) :
          IsEmpty(Top.environment.ephemeral_hints[i])
     /\ Top.environment.return_value_hints
          = AddConstant(EmptyHints, SmiFromInt(1))

\* C28: Return adds the accumulator's hints to return_value_hints and
\* empties every ephemeral slot, and leaves the environment alive: the
\* bytecodes after it are dispatched, from empty hints, and a later Return
\* adds to return_value_hints.  Run for LdaSmi 1; Return; LdaSmi 2; Return
\* returns {Smi(1), Smi(2)}.
C28_ReturnLeavesAlive ==
  /\ ReturnClearsEphemeral
  /\ DispatchedAfterReturn
  /\ Returned("returns")
       \subseteq {[EmptyHints EXCEPT
                     !.constants = {SmiFromInt(1), SmiFromInt(2)}]}

\* Run has returned for the function with two Returns.
C28_BothReturnsAdded == Returned("returns") # {}

\* The walk stands, with a dead environment, at an offset the table has an
\* entry for.
DeadAtJumpTarget ==
  /\ Dispatching
  /\ IsDead(Top.environment)
  /\ Top.offset \in Targets(Top)

\* C29: when the walk reaches, with a dead environment, an offset that has
\* an entry in the jump target table, the environment becomes alive with
\* the ephemeral hints of the entry, the entry is removed, and the opcode at
\* the offset is dispatched, also where the offset is no handler start and
\* the opcode no ResumeGenerator.  Run for LdaSmi 1; Star r0; LdaSmi 2;
\* JumpIfTrue L; Throw; LdaSmi 42; L: Return returns {Smi(2)}.
C29_DeadRevivedAtJumpTarget ==
  /\ DeadAtJumpTarget =>
       \A iterator \in Current :
         LET begun == AtSwitch(Top, iterator)
             entry == Top.jump_target_environments[Top.offset]
         IN /\ ~Skipped(iterator)
            /\ ~IsDead(begun.environment)
            /\ begun.environment.ephemeral_hints = entry.ephemeral_hints
            /\ begun.environment.return_value_hints
                 = Top.environment.return_value_hints
            /\ Targets(begun) = Targets(Top) \ {Top.offset}
            /\ TraverseBytecode(Top, feedback, iterator,
                                Visit(begun, feedback, iterator))
                 = EndIteration(Visit(begun, feedback, iterator),
                                IncorporateFailures(Top, Top.offset))
  /\ Returned("join") \subseteq {AddConstant(EmptyHints, SmiFromInt(2))}

\* The walk of the function whose Throw is jumped over stands dead at the
\* jump target, a Return that no handler starts at, and Run has returned
\* for that function.
C29_DeadBeforeJoin ==
  /\ stack # <<>>
  /\ DeadAtJumpTarget
  /\ Top.environment.function[1] = "join"
  /\ ~CurrentBytecodeIsExceptionHandlerStart(Top).result
  /\ \A iterator \in Current : iterator.op = "Return"

\* The serializer without its accumulator hints and without what is left of
\* the call it processes.
ButCallAndAccumulator(serializer) ==
  [serializer EXCEPT !.environment = ButAccumulator(@), !.call = <<>>]

\* A step leaves every serializer that waits for a child serializer; the
\* step that starts a child leaves the caller but for the turns of the call
\* that are left; the step in which the child's Run returns, which it does
\* at the end of the child's bytecode, leaves the caller but for the
\* accumulator hints.
ChildLeavesParent ==
  \A i \in Kept :
    /\ (i < Len(stack) /\ i < Len(stack')) => stack'[i] = stack[i]
    /\ (i = Len(stack) /\ Len(stack') = Len(stack) + 1)
         => /\ [stack'[i] EXCEPT !.call = <<>>]
                 = [stack[i] EXCEPT !.call = <<>>]
            /\ ~IsDead(stack[i].environment)
    /\ (i = Len(stack) - 1 /\ i = Len(stack'))
         => /\ Done(Top)
            /\ ButCallAndAccumulator(stack'[i])
                 = ButCallAndAccumulator(stack[i])
            /\ stack'[i].call = stack[i].call
            /\ IsDead(stack'[i].environment) = IsDead(stack[i].environment)

\* C31: a child serializer runs to the end inside the transfer function of
\* the call and changes nothing of its parent but, by what it returns, the
\* accumulator: the parent's parameter, register and context hints, its
\* return value hints, its being alive and its jump target table are the
\* same before and after RunChildSerializer, also when the child kills its
\* environment or runs children of its own.
C31_ChildLeavesParentState == [][ChildLeavesParent]_vars

\* A child serializer of a child serializer has killed its environment
\* while both callers hold hints.
C31_GrandchildKilled ==
  /\ Len(stack) >= 3
  /\ IsDead(Top.environment)
  /\ \A i \in 1..(Len(stack) - 1) :
       /\ ~IsDead(stack[i].environment)
       /\ stack[i].call # <<>>
       /\ \E j \in 1..Len(stack[i].environment.ephemeral_hints) :
            ~IsEmpty(stack[i].environment.ephemeral_hints[j])

\* A child serializer has the flags of its parent but kOsr.
ChildrenWithoutOsr ==
  \A i \in 2..Len(stack) :
    /\ kOsr \notin stack[i].flags
    /\ stack[i].flags = stack[i - 1].flags \ {kOsr}

\* In a child serializer of a compilation with kOsr and
\* kBailoutOnUninitialized, a call or property access with an uninitialized
\* feedback slot kills the environment.
ChildOfOsrBailsOut ==
  (/\ Dispatching
   /\ Len(stack) >= 2
   /\ {kOsr, kBailoutOnUninitialized} \subseteq stack[1].flags)
  => \A iterator \in Current :
       (/\ IsCall(iterator) \/ iterator.op \in PropertyAccessOps
        /\ ~Skipped(iterator)
        /\ iterator.slot # InvalidSlot
        /\ NexusIsUninitialized(Top.environment.function[2], iterator.slot))
       => BailsOut(BeginBytecode(Top, iterator).outcome,
                   TraverseBytecode(Top, feedback, iterator,
                                    Visit(AtSwitch(Top, iterator), feedback,
                                          iterator)),
                   Source(Top, iterator.slot))

\* C32: every child serializer runs without kOsr and with the other flags
\* of its parent, so the assertion of the inlined constructor fails at no
\* depth, and in a child of a compilation with kOsr and
\* kBailoutOnUninitialized an uninitialized slot kills the child's
\* environment.
C32_ChildrenRunWithoutOsr ==
  /\ ChildrenWithoutOsr
  /\ "DCHECK(!(flags_ & kOsr))" \notin failed
  /\ ChildOfOsrBailsOut

\* In a compilation with kOsr, the child of the child serializer has
\* returned and the child has bailed out at its property access.
C32_ChildOfOsrBailedOut ==
  /\ Len(stack) = 2
  /\ kOsr \in stack[1].flags
  /\ Top.environment.function[1] = "relay"
  /\ Top.flags = {kBailoutOnUninitialized, kCollectSourcePositions}
  /\ BagToSet(walks) =
       {<<"outer", "fv_outer">>, <<"relay", "fv_relay">>,
        <<"thrower", "fv_thrower">>}
  /\ IsDead(Top.environment)
  /\ HasFeedback(feedback, <<"fv_relay", 3>>)

\* The opcodes with a feedback slot.
SlotOps ==
  CallFixedOps \cup CallRangeOps \cup PropertyAccessOps
  \cup {"LdaGlobal", "StaGlobal"}

\* The cache holds for every source what the earlier cache holds for it.
Keeps(cache, earlier) ==
  \A source \in DOMAIN earlier :
    HasFeedback(cache, source) /\ cache[source] = earlier[source]

\* An iteration leaves the feedback the broker has for a source, and sets
\* feedback for no source but that of the slot of its bytecode.
DispatchKeepsFeedback ==
  Dispatching =>
    \A iterator \in Current :
      LET left == TraverseBytecode(Top, feedback, iterator,
                                   Visit(AtSwitch(Top, iterator), feedback,
                                         iterator)).feedback
      IN /\ Keeps(left, feedback)
         /\ DOMAIN left \ DOMAIN feedback
              \subseteq IF iterator.op \in SlotOps
                        THEN {Source(Top, iterator.slot)} ELSE {}

\* C33: the serializers of a compilation set the broker's feedback for a
\* source (vector, slot) at most once: feedback that is cached is not
\* overwritten by BailoutOnUninitialized, ProcessFeedbackForGlobalAccess or
\* ProcessFeedbackForPropertyAccess, also where opcodes of a function refer
\* to the same slot.
C33_FeedbackSetOnce ==
  /\ []DispatchKeepsFeedback
  /\ [][Keeps(feedback', feedback)]_vars

\* A bytecode with a feedback slot is to be dispatched for whose source an
\* earlier bytecode of the function left feedback of another kind than the
\* bytecode would.
C33_SlotSeenBefore ==
  /\ Dispatching
  /\ Top.environment.function[1] = "access"
  /\ \E iterator \in Current :
       /\ iterator.op = "LdaKeyedProperty"
       /\ ~Skipped(iterator)
       /\ HasFeedback(feedback, Source(Top, iterator.slot))
       /\ feedback[Source(Top, iterator.slot)]
            # ProcessFeedbackForPropertyAccess(
                Top, <<>>, iterator.slot, kLoad, <<>>)[Source(Top,
                                                              iterator.slot)]

\* The assertions on an environment being alive: the CHECK of Merge, the
\* bounds check of accumulator_hints and register_hints, and the DCHECKs of
\* Kill, Revive and BailoutOnUninitialized.
AlivenessAssertions ==
  {"CHECK(!IsDead()) in Merge",
   "CHECK_LT(index, ephemeral_hints_.size())",
   "DCHECK(!IsDead()) in Kill",
   "DCHECK(IsDead()) in Revive",
   "DCHECK(!IsDead()) in BailoutOnUninitialized"}

\* The switch of TraverseBytecode is reached with an alive environment, and
\* none of the assertions fails in the iteration.
DispatchedAlive ==
  Dispatching =>
    \A iterator \in Current :
      /\ ~Skipped(iterator) => ~IsDead(AtSwitch(Top, iterator).environment)
      /\ TraverseBytecode(Top, feedback, iterator,
                          Visit(AtSwitch(Top, iterator), feedback,
                                iterator)).failed
           \cap AlivenessAssertions = {}

\* The environments of the jump target tables are alive, and so is that of
\* a serializer that processes a call.
StoredAlive ==
  \A i \in Frames :
    /\ \A target \in Targets(stack[i]) :
         ~IsDead(stack[i].jump_target_environments[target])
    /\ (i < Len(stack) \/ stack[i].call # <<>>)
         => ~IsDead(stack[i].environment)

\* C34: in every state of a walk a transfer function is dispatched on an
\* alive environment only, none reads or writes a hint after it killed the
\* environment, and every environment of a jump target table is alive: the
\* CHECK(!IsDead()) of Merge, the bounds checks of accumulator_hints and
\* register_hints and the assertions of Kill, Revive and
\* BailoutOnUninitialized on the environment being alive, or dead, do not
\* fail.
C34_AlivenessAssertionsHold ==
  /\ DispatchedAlive
  /\ StoredAlive
  /\ failed \cap AlivenessAssertions = {}

\* A walk whose environment a bailout killed stands, dead, at the target of
\* a jump.
C34_KilledBeforeJumpTarget ==
  /\ stack # <<>>
  /\ DeadAtJumpTarget
  /\ kBailoutOnUninitialized \in Top.flags
  /\ DOMAIN feedback # {}
  /\ failed = {}

\* The return value hints of the environment of a serializer include those
\* of every environment of its jump target table.
ReturnValueIncludesStored ==
  \A i \in Frames :
    \A target \in Targets(stack[i]) :
      Includes(stack[i].environment.return_value_hints,
               stack[i].jump_target_environments[target].return_value_hints)

\* The merge at the start of an iteration leaves the return value hints,
\* and the iteration changes them only when its bytecode is a Return.
OnlyReturnAdds ==
  Dispatching =>
    \A iterator \in Current :
      LET begun == AtSwitch(Top, iterator)
          left ==
            TraverseBytecode(Top, feedback, iterator,
                             Visit(begun, feedback, iterator)).serializer
          hints == Top.environment.return_value_hints
      IN /\ begun.environment.return_value_hints = hints
         /\ \/ left.environment.return_value_hints = hints
            \/ iterator.op = "Return" /\ ~Skipped(iterator)

\* The steps that are no iteration of the running serializer leave the
\* return value hints of every serializer.
OtherStepsKeepReturnValue ==
  \A i \in Kept :
    ~(i = Len(stack) /\ Dispatching) =>
      stack'[i].environment.return_value_hints
        = stack[i].environment.return_value_hints

\* C35: in every merge of a walk, into an entry of the jump target table or
\* of an entry into the current environment, the return value hints of the
\* current environment include those of the entry, so the SLOW_DCHECK on
\* the path of Merge for a dead receiver holds and the merges leave the
\* return value hints of the current environment: only Return adds to
\* them.  Run for LdaSmi 1; Return; JumpIfTrue L; LdaSmi 2; Return;
\* JumpIfTrue L; Throw; L: Return returns {Smi(1), Smi(2)}.
C35_MergesKeepReturnValue ==
  /\ [](/\ ReturnValueIncludesStored
        /\ OnlyReturnAdds
        /\ "SLOW_DCHECK(return_value_hints_.Includes(...))" \notin failed
        /\ Returned("tail")
             \subseteq {[EmptyHints EXCEPT
                           !.constants = {SmiFromInt(1), SmiFromInt(2)}]})
  /\ [][OtherStepsKeepReturnValue]_vars

\* The walk stands dead at the jump target whose entry was made with a part
\* of the return value hints and merged into with all of them.
C35_DeadAfterReturns ==
  /\ stack # <<>>
  /\ DeadAtJumpTarget
  /\ Top.environment.function[1] = "tail"
  /\ Top.environment.return_value_hints.constants
       = {SmiFromInt(1), SmiFromInt(2)}
  /\ Top.jump_target_environments[Top.offset].return_value_hints
       = Top.environment.return_value_hints

----------------------------------------------------------------------------
(* Properties of the operations of Environment.                            *)

\* C9: after a.Merge(b) for environments of one function with b alive,
\* every ephemeral slot of a includes the hints a had in it and the hints b
\* has in it, and b is as it was.
C9_MergeIncludesBoth ==
  (before.op = "Merge" /\ ~IsDead(before.other)) =>
    /\ Len(self.ephemeral_hints) = Len(before.other.ephemeral_hints)
    /\ \A i \in 1..Len(self.ephemeral_hints) :
         /\ Includes(self.ephemeral_hints[i], before.other.ephemeral_hints[i])
         /\ i <= Len(before.self.ephemeral_hints) =>
              Includes(self.ephemeral_hints[i],
                       before.self.ephemeral_hints[i])
    /\ other = before.other

\* Two alive environments were merged into one that differs from both.
C9_MergedTwoAlive ==
  /\ before.op = "Merge"
  /\ ~IsDead(before.self)
  /\ ~IsDead(before.other)
  /\ self.ephemeral_hints # before.self.ephemeral_hints
  /\ self.ephemeral_hints # before.other.ephemeral_hints

\* C10: the merge of an environment with itself, or with a copy of itself,
\* changes nothing, whether the environment is alive or dead, and no
\* assertion fails.
C10_MergeWithSelfIsNoOp ==
  before.op \in {"MergeSelf", "MergeCopy"} =>
    /\ self = before.self
    /\ failed = {}
\* C12: Kill and then Revive of an alive environment leave it alive, with
\* an ephemeral vector as long as before the Kill and empty in every slot,
\* and with the closure_hints and return_value_hints it had.
C12_KillThenReviveIsEmpty ==
  (/\ before.op = "Revive"
   /\ before.previous.op = "Kill"
   /\ ~IsDead(before.previous.self))
  => /\ ~IsDead(self)
     /\ Len(self.ephemeral_hints)
          = Len(before.previous.self.ephemeral_hints)
     /\ \A i \in 1..Len(self.ephemeral_hints) :
          self.ephemeral_hints[i] = EmptyHints
     /\ self.closure_hints = before.previous.self.closure_hints
     /\ self.return_value_hints = before.previous.self.return_value_hints

\* An environment with hints in a slot was killed and then revived.
C12_RevivedAfterKill ==
  /\ before.op = "Revive"
  /\ before.previous.op = "Kill"
  /\ \E i \in 1..Len(before.previous.self.ephemeral_hints) :
       before.previous.self.ephemeral_hints[i] # EmptyHints
  /\ before.previous.self.return_value_hints # EmptyHints
  /\ ~IsDead(self)

\* C13: Kill of a dead environment fails no assertion and leaves the
\* environment as it is, so that Kill twice is Kill once.
C13_KillIsIdempotent ==
  (before.op = "Kill" /\ IsDead(before.self))
  => /\ self = before.self
     /\ "DCHECK(!IsDead()) in Kill" \notin failed
\* C14: in an environment constructed for an inlined function, parameter i
\* holds the i-th argument up to the smaller of the argument count and the
\* parameter count, the parameters after the last argument hold {undefined},
\* and every other slot is empty but the incoming new.target register,
\* which holds the new.target hints when there are any.
C14_InlinedParameters ==
  before.op = "Environment" =>
    LET arguments == before.arguments
        new_target_reg ==
          SharedFunctionInfo[before.function.blueprint[1]].new_target
    IN /\ Len(self.ephemeral_hints) = ephemeral_hints_size(self)
       /\ \A i \in 1..Len(self.ephemeral_hints) :
            self.ephemeral_hints[i] =
              IF i <= Min(Len(arguments), parameter_count(self))
              THEN arguments[i]
              ELSE IF i <= parameter_count(self)
              THEN AddConstant(EmptyHints, UndefinedValue)
              ELSE IF /\ is_valid(new_target_reg)
                      /\ i = RegisterToLocalIndex(self, new_target_reg) + 1
                      /\ before.new_target # <<>>
              THEN before.new_target[1]
              ELSE EmptyHints
       /\ self.closure_hints = before.self.closure_hints
       /\ self.return_value_hints = EmptyHints

\* An environment was constructed from fewer arguments than parameters, with
\* new.target hints for its new.target register.
C14_PaddedWithUndefined ==
  /\ before.op = "Environment"
  /\ Len(before.arguments) = 1
  /\ before.arguments[1] # EmptyHints
  /\ parameter_count(self) = 2
  /\ before.new_target # <<>>
  /\ before.new_target[1] # EmptyHints
----------------------------------------------------------------------------
(* Properties of the operations of Hints.                                  *)

\* C11: Hints::Add is idempotent, commutative and associative on the three
\* sets: A.Add(A) leaves A, A.Add(B) leaves what B.Add(A) leaves, and
\* A.Add(B) followed by Add(C) leaves what A.Add(B.Add(C)) leaves.
C11_AddIsIdempotentCommutativeAssociative ==
  /\ before.op = "AddSelf" => self = before.self
  /\ before.op = "Add" => self = Add(before.other, before.self)
  /\ (before.op = "Add" /\ before.previous.op = "Add")
       => self = Add(before.previous.self,
                     Add(before.previous.other, before.other))

\* Three different Hints were added up, the first two with a constant in
\* common.
C11_AddedThree ==
  /\ before.op = "Add"
  /\ before.previous.op = "Add"
  /\ before.previous.self # before.previous.other
  /\ before.other \notin {before.previous.self, before.previous.other}
  /\ before.previous.self.constants \cap before.previous.other.constants
       # {}
  /\ self # before.self
====
